---- MODULE Spec2Model ----
(***************************************************************************)
(* Model of the Insta-Bot engagement engine:                               *)
(*   src/src/bot.py            InstagramBot (quota tracker, active window) *)
(*   src/src/engagement.py     EngagementManager (per-target pipeline)     *)
(*   src/src/bot_controller.py BotController (worker threads, stop flag)   *)
(*   src/gui.py                BotGUI (stats polling, challenge dialog)    *)
(*   src/src/comment_generator.py  TemplateCommentGenerator                *)
(* The specifications share the bot-level operators:                       *)
(*   SpecBot     one bot instance driven call by call                      *)
(*   Spec        one run of EngagementManager.engage_with_hashtag          *)
(*   SpecCtl     BotController's control context and its worker threads    *)
(*   SpecFn      the pure checks, applied to inputs drawn from their range *)
(*   SpecCamp    one run of EngagementManager.run_campaign                 *)
(*   SpecHist    EngagementManager.track_action, call after call           *)
(*   SpecChal    one challenge-code request (src/gui.py, BotController)    *)
(*   SpecObs     a like-only worker run and the observer reading the stats *)
(*   SpecGen     TemplateCommentGenerator.get_comment, call after call     *)
(*   SpecPub     one hashtag run and the notifications the GUI handles     *)
(***************************************************************************)
EXTENDS Integers, Sequences, FiniteSets, TLC

VARIABLES
    stats,      \* InstagramBot.stats (ActionStats, in memory)
    store,      \* the stats file: "absent", "corrupt" or a saved ActionStats
    today,      \* datetime.now().date(), as a day number
    dry_run,    \* InstagramBot.dry_run
    ret,        \* the last bot call made: what was called and what it returned
    save_failures, \* how many writes of the stats file have failed (at most one does)
    hour,       \* datetime.now().hour
    epc,        \* where the run of engage_with_hashtag stands
    args,       \* like_posts and comment_posts of the run
    n,          \* len(medias): the number of posts fetched
    idx,        \* how many of the fetched posts the loop has taken
    run,        \* the stats dictionary engage_with_hashtag returns
    last,       \* what the run did with the post it took last
    reason,     \* why the run left its loop
    start_stats, \* the ActionStats the run started with
    ctl,        \* BotController: bot, _logged_in, status.state, _stop_flag
    workers,    \* the worker threads the controller has started
    late,       \* the last executor call came after a stop() made during its delay
    overslept,  \* the last cooldown was slept in full after a stop() made during it
    probe,      \* the last call of a pure check: its inputs and what it returned
    limits,     \* config.limits: the configured maximum of each category
    camp,       \* where a run of run_campaign stands, and its campaign_stats
    chal,       \* a verification code request: the handler, the dialog, the event
    action_history, \* EngagementManager.action_history
    tracked,    \* how many times track_action has been called
    obs,        \* the observer: the last stats snapshot it read, and every
                \* ActionStats the stats file has held during the run
    gen,        \* TemplateCommentGenerator: templates, used_comments, and the
                \* comments get_comment has returned
    gui         \* BotGUI: the callbacks queued by root.after and what the
                \* main thread has shown of them

\* the bot and its stats file
botvars == <<stats, store, today, dry_run, ret, save_failures>>

\* a run of engage_with_hashtag
runvars == <<hour, epc, args, n, idx, run, last, reason, start_stats>>

\* the controller, its control context and its worker threads
ctlvars == <<ctl, workers, late, overslept>>

\* what the bot, the run and the controller leave alone
\* the verification code request and the action history
guivars == <<gen, gui>>

sidevars == <<chal, action_history, tracked, obs, guivars>>

othervars == <<probe, limits, camp, sidevars>>

vars == <<botvars, runvars, ctlvars, othervars>>

(* ------------------------------ bounds -------------------------------- *)
MaxLikes == 2
MaxComments == 1
MaxFollows == 1
MaxUnfollows == 1
MaxDay == 1
MaxBotErrors == 1

MaxPosts == 4
MaxSources == 2
MaxPostsPerHashtag == 3
MaxThreads == 2
MaxCtlPosts == 1
MaxTags == 1

ErrorThreshold == 3
ActiveHoursStart == 8
ActiveHoursEnd == 23
MinFollowers == 100
MaxFollowers == 50000
SkipVerified == TRUE
SkipBusiness == FALSE

\* the configured maximum of each category
Maximum == [likes |-> MaxLikes, comments |-> MaxComments,
            follows |-> MaxFollows, unfollows |-> MaxUnfollows]

Days == 0..MaxDay
Categories == {"likes", "comments", "follows", "unfollows"}
Outcomes == {"ok", "FeedbackRequired", "PleaseWaitFewMinutes", "LoginRequired", "Exception"}

(* ------------------------- dates as ISO strings ----------------------- *)
\* date.isoformat(): fixed-width, zero-padded decimal fields
isoformat(d) == <<d \div 10, d % 10>>

\* datetime.fromisoformat(s).date()
fromisoformat(s) == s[1] * 10 + s[2]

\* Python's None for an optional ISO string
None == <<>>

(* ------------------------------ ActionStats --------------------------- *)
ActionStats ==
    [likes |-> 0, comments |-> 0, follows |-> 0, unfollows |-> 0,
     errors |-> 0, last_action |-> None, last_reset |-> None]

limits_map(st) ==
    [likes     |-> <<st.likes, limits.likes>>,
     comments  |-> <<st.comments, limits.comments>>,
     follows   |-> <<st.follows, limits.follows>>,
     unfollows |-> <<st.unfollows, limits.unfollows>>]

\* mutant: the category gate compares with <= (one action too many)
check_daily_limits_le(st, action_type) ==
    IF action_type # "None" /\ action_type \in DOMAIN limits_map(st)
    THEN limits_map(st)[action_type][1] <= limits_map(st)[action_type][2]
    ELSE \A c \in DOMAIN limits_map(st) : limits_map(st)[c][1] < limits_map(st)[c][2]

\* mutant: the general check passes as soon as any one category has headroom
check_daily_limits_any(st, action_type) ==
    IF action_type # "None" /\ action_type \in DOMAIN limits_map(st)
    THEN limits_map(st)[action_type][1] < limits_map(st)[action_type][2]
    ELSE \E c \in DOMAIN limits_map(st) : limits_map(st)[c][1] < limits_map(st)[c][2]

check_daily_limits(st, action_type) ==
    IF action_type # "None" /\ action_type \in DOMAIN limits_map(st)
    THEN limits_map(st)[action_type][1] < limits_map(st)[action_type][2]
    ELSE \A c \in DOMAIN limits_map(st) : limits_map(st)[c][1] < limits_map(st)[c][2]

\* the stats file: missing, unreadable, or holding a saved ActionStats
File(kind, data) == [kind |-> kind, data |-> data]

\* mutant: _save_stats never writes the file
save_stats_lost(file, st, ok) == file

\* _save_stats: the write may fail; the failure is logged and swallowed
save_stats(file, st, ok) == IF ok THEN File("saved", st) ELSE file

\* mutant: _load_stats never reads the file
load_stats_default(file) == ActionStats

\* _load_stats: a missing or unreadable file leaves the default ActionStats
load_stats(file) == IF file.kind = "saved" THEN file.data ELSE ActionStats

\* reset_daily_stats, without its trailing save
reset_daily_stats(st, day) ==
    [st EXCEPT !.likes = 0, !.comments = 0, !.follows = 0, !.unfollows = 0,
               !.errors = 0, !.last_reset = isoformat(day)]

\* mutant: the date test is >=, so a call on the day of the last reset resets again
needs_reset_ge(st, day) ==
    IF st.last_reset = None THEN TRUE
    ELSE day >= fromisoformat(st.last_reset)

\* the condition under which _check_daily_reset calls reset_daily_stats
needs_reset(st, day) ==
    IF st.last_reset = None THEN TRUE
    ELSE day > fromisoformat(st.last_reset)

check_daily_reset(st, day) ==
    IF needs_reset(st, day) THEN reset_daily_stats(st, day) ELSE st

\* InstagramBot.__init__: load the stats, then reset them if the day changed
construct(file, day) == check_daily_reset(load_stats(file), day)

(* ------------------------ like_post / comment_post -------------------- *)
Counter(kind) == IF kind = "like" THEN "likes" ELSE "comments"

\* mutant: the dry-run test is gone
gate_no_dry(st, dry, kind) ==
    IF ~check_daily_limits(st, Counter(kind)) THEN "limit"
    ELSE "call"

\* the guard before the try block: dry run returns True, a reached limit False
gate(st, dry, kind) ==
    IF dry THEN "dry"
    ELSE IF ~check_daily_limits(st, Counter(kind)) THEN "limit"
    ELSE "call"

\* mutant: a failed call stamps the last action time as a successful one does
after_call_stamp(st, day, kind, outcome) ==
    IF outcome = "ok"
    THEN [st EXCEPT ![Counter(kind)] = @ + 1, !.last_action = isoformat(day)]
    ELSE [st EXCEPT !.errors = @ + 1, !.last_action = isoformat(day)]

\* the try block after human_delay: the executor's outcome applied to the stats
after_call(st, day, kind, outcome) ==
    IF outcome = "ok"
    THEN [st EXCEPT ![Counter(kind)] = @ + 1, !.last_action = isoformat(day)]
    ELSE [st EXCEPT !.errors = @ + 1]

\* like_post / comment_post as one call: the stats after it, the value returned,
\* whether the executor was called, whether the cooldown sleep was taken
post_action(st, dry, day, kind, outcome) ==
    LET g == gate(st, dry, kind) IN
    IF g = "dry" THEN [stats |-> st, val |-> TRUE, exec |-> FALSE, slept |-> FALSE, saved |-> FALSE]
    ELSE IF g = "limit" THEN [stats |-> st, val |-> FALSE, exec |-> FALSE, slept |-> FALSE, saved |-> FALSE]
    ELSE [stats |-> after_call(st, day, kind, outcome), val |-> outcome = "ok",
          exec |-> TRUE, slept |-> outcome = "PleaseWaitFewMinutes", saved |-> TRUE]

(* --------------------- the state of a run, at rest -------------------- *)
RunStats == [posts_processed |-> 0, posts_liked |-> 0, posts_commented |-> 0,
             posts_skipped |-> 0, errors |-> 0]

NoPost == [taken |-> FALSE, pre |-> ActionStats, eligible |-> FALSE,
           like_req |-> FALSE, like_exec |-> FALSE, liked |-> FALSE,
           comment_exec |-> FALSE, commented |-> FALSE, error |-> FALSE,
           fatal |-> FALSE, like_out |-> "none", comment_out |-> "none"]

\* no run of engage_with_hashtag has been started
NoRun ==
    /\ hour = 0
    /\ epc = "ready"
    /\ args = [like_posts |-> FALSE, comment_posts |-> FALSE]
    /\ n = 0
    /\ idx = 0
    /\ run = RunStats
    /\ last = NoPost
    /\ reason = "none"
    /\ start_stats = ActionStats

(* ------------------ the state of the controller, unused --------------- *)
Threads == 1..MaxThreads

NoThread == [pc |-> "none", kind |-> "hashtag", like |-> FALSE, comment |-> FALSE,
             tags |-> 0, left |-> 0, liked |-> FALSE, cancelled |-> FALSE,
             auth_failed |-> FALSE]

\* no BotController has been made
NoCtl ==
    /\ ctl = [bot |-> FALSE, logged_in |-> FALSE, state |-> "idle", stop_flag |-> FALSE,
              in_stop |-> FALSE]
    /\ workers = [w \in Threads |-> NoThread]
    /\ late = FALSE
    /\ overslept = FALSE

(* ----------------------- no pure check was called -------------------- *)
NoProbe == [fn |-> "none", hour |-> 0, window |-> <<0, 0>>,
            media |-> [has_liked |-> FALSE, is_verified |-> FALSE,
                       is_business |-> FALSE, follower_count |-> 0],
            skip_verified |-> FALSE, skip_business |-> FALSE,
            called |-> FALSE, val |-> FALSE]

(* ------------------------ no campaign is being run -------------------- *)
\* the hashtags a campaign may list
Tags == {"a", "b"}

\* campaign_stats['hashtags'] has no entry for a hashtag
NoEntry == [set |-> FALSE, stats |-> RunStats]

NoTotals == [likes |-> 0, comments |-> 0, skipped |-> 0, errors |-> 0]

NoCampaign == [pc |-> "none", hashtags |-> <<>>, pos |-> 0,
               entries |-> [t \in Tags |-> NoEntry], totals |-> NoTotals,
               processed |-> <<>>, delay_after |-> {}, reason |-> "none",
               pre |-> ActionStats]

(* ------------- no verification code asked, no action tracked --------- *)
\* Python's empty string
Empty == <<>>

NoChallenge == [pc |-> "none", responder |-> FALSE, dialog |-> "none",
                typed |-> Empty, result |-> Empty, event |-> FALSE,
                timed_out |-> FALSE, in_time |-> FALSE, stop_flag |-> FALSE,
                code |-> Empty]

\* the observer has read no snapshot
NoObserver == [by |-> "none", snapshot |-> ActionStats, persisted |-> {}]

\* no get_comment call has been made
NoGenerator == [templates |-> {}, used_comments |-> {}, avoid_recent |-> FALSE,
                out |-> <<>>]

\* nothing is queued for the main thread, which shows the status Idle
NoGui == [queue |-> <<>>, log |-> <<>>, badge |-> "idle", published |-> "idle",
          handled |-> 0]

NoGuiSide ==
    /\ gen = NoGenerator
    /\ gui = NoGui

NoSide ==
    /\ chal = NoChallenge
    /\ action_history = <<>>
    /\ tracked = 0
    /\ obs = NoObserver
    /\ NoGuiSide

\* the limits of the small configuration, no pure check called, no campaign
NoOther ==
    /\ probe = NoProbe
    /\ limits = Maximum
    /\ camp = NoCampaign
    /\ NoSide

(* ===================== SpecBot: one bot, call by call ================= *)
StoredStats ==
    [likes : 0..MaxLikes, comments : 0..MaxComments,
     follows : {0, MaxFollows}, unfollows : {0, MaxUnfollows},
     errors : {0, 1}, last_action : {None},
     last_reset : {None} \cup {isoformat(d) : d \in Days}]

Files ==
    {File("absent", ActionStats), File("corrupt", ActionStats)}
        \cup {File("saved", st) : st \in StoredStats}

NoCall == [op |-> "none", arg |-> "None", val |-> FALSE, exec |-> FALSE,
           raised |-> FALSE, limit |-> 0, list |-> <<>>]


\* the outcomes a write of the stats file can have now
SaveOutcomes == IF save_failures = 0 THEN BOOLEAN ELSE {TRUE}

\* mutant: the exception of a failed write leaves _save_stats
save_raises_failure(ok) == ~ok

\* _save_stats's except clause: a failed write is logged and nothing is raised
save_raises(ok) == FALSE

\* the stats file and the failure count after a save of st, or after no save
Persist(saved, st, ok) ==
    /\ store' = IF saved THEN save_stats(store, st, ok) ELSE store
    /\ save_failures' = IF saved /\ ~ok THEN save_failures + 1 ELSE save_failures

InitBot ==
    /\ today \in Days
    /\ dry_run \in BOOLEAN
    /\ \E file \in Files :
         /\ stats = construct(file, today)
         /\ store = IF needs_reset(load_stats(file), today)
                    THEN save_stats(file, stats, TRUE) ELSE file
    /\ save_failures = 0
    /\ ret = NoCall
    /\ NoRun
    /\ NoCtl
    /\ NoOther

\* a fresh process constructs a new InstagramBot over the same stats file
NewBot ==
    /\ \E ok \in SaveOutcomes, dry \in BOOLEAN :
         /\ stats' = construct(store, today)
         /\ Persist(needs_reset(load_stats(store), today), stats', ok)
         /\ dry_run' = dry
         /\ ret' = [NoCall EXCEPT !.op = "new",
                                  !.raised = needs_reset(load_stats(store), today)
                                                /\ save_raises(ok)]
    /\ UNCHANGED <<today, runvars, ctlvars, othervars>>

PostCall(kind) ==
    \E outcome \in Outcomes, ok \in SaveOutcomes :
      LET r == post_action(stats, dry_run, today, kind, outcome) IN
      /\ r.stats.errors <= MaxBotErrors
      /\ stats' = r.stats
      /\ Persist(r.saved, r.stats, ok)
      /\ ret' = [NoCall EXCEPT !.op = kind, !.val = r.val, !.exec = r.exec,
                                !.raised = r.saved /\ save_raises(ok)]
      /\ UNCHANGED <<today, dry_run, runvars, ctlvars, othervars>>

LikePost == PostCall("like")

CommentPost == PostCall("comment")

CheckLimits ==
    /\ \E c \in Categories \cup {"None"} :
         ret' = [NoCall EXCEPT !.op = "check", !.arg = c,
                                !.val = check_daily_limits(stats, c)]
    /\ UNCHANGED <<stats, store, today, dry_run, save_failures, runvars, ctlvars, othervars>>

CheckDailyReset ==
    /\ \E ok \in SaveOutcomes :
         /\ stats' = check_daily_reset(stats, today)
         /\ Persist(needs_reset(stats, today), stats', ok)
         /\ ret' = [NoCall EXCEPT !.op = "check_daily_reset",
                                  !.raised = needs_reset(stats, today) /\ save_raises(ok)]
    /\ UNCHANGED <<today, dry_run, runvars, ctlvars, othervars>>

ResetDailyStats ==
    /\ \E ok \in SaveOutcomes :
         /\ stats' = reset_daily_stats(stats, today)
         /\ Persist(TRUE, stats', ok)
         /\ ret' = [NoCall EXCEPT !.op = "reset_daily_stats", !.raised = save_raises(ok)]
    /\ UNCHANGED <<today, dry_run, runvars, ctlvars, othervars>>

\* midnight passes while the process keeps running
NextDay ==
    /\ today < MaxDay
    /\ today' = today + 1
    /\ ret' = NoCall
    /\ UNCHANGED <<stats, store, dry_run, save_failures, runvars, ctlvars, othervars>>

NextBot ==
    \/ NewBot
    \/ LikePost
    \/ CommentPost
    \/ CheckLimits
    \/ CheckDailyReset
    \/ ResetDailyStats
    \/ NextDay

SpecBot == InitBot /\ [][NextBot]_vars

(* ----------------------- properties of SpecBot ------------------------ *)
\* the stats hold a reset date earlier than the current day
Stale == stats.last_reset # None /\ fromisoformat(stats.last_reset) < today

\* C2: a category check returns false iff the counter equals its maximum, no
\* like or comment counter exceeds its maximum, and the executor is called for
\* a category only while its counter is below the maximum
C2_QuotaGate ==
    /\ stats.likes <= MaxLikes
    /\ stats.comments <= MaxComments
    /\ (ret.op = "check" /\ ret.arg \in Categories)
          => (ret.val = FALSE <=> stats[ret.arg] = Maximum[ret.arg])
    /\ (ret.op \in {"like", "comment"} /\ ret.exec)
          => stats[Counter(ret.op)] - (IF ret.val THEN 1 ELSE 0) < Maximum[Counter(ret.op)]

\* C2 witness: a real like_post was refused, without an executor call, with the
\* like counter at its maximum
C2_Witness ==
    /\ ~dry_run
    /\ ret.op = "like" /\ ~ret.exec /\ ~ret.val
    /\ stats.likes = MaxLikes

\* C7 (as claimed): a check of the like limit made on a day after the stored
\* reset date evaluates against reset counters and returns true
C7_LazyResetAtCheck ==
    (ret.op = "check" /\ ret.arg = "likes" /\ Stale) => ret.val = TRUE

\* C8: a _check_daily_reset call made when the stored reset date is the current
\* day changes nothing, and one made on a later day than the stored date zeroes
\* the counters and stores the current day
C8_ResetIdempotent ==
    [][ret'.op = "check_daily_reset" =>
         /\ (stats.last_reset = isoformat(today) => stats' = stats)
         /\ Stale => /\ stats'.likes = 0 /\ stats'.comments = 0
                     /\ stats'.follows = 0 /\ stats'.unfollows = 0
                     /\ stats'.errors = 0
                     /\ stats'.last_reset = isoformat(today)]_vars

\* C8 witness: a _check_daily_reset call returned on a day already reset and
\* left a counter incremented since that reset in place
C8_Witness ==
    /\ ret.op = "check_daily_reset"
    /\ today > 0
    /\ stats.last_reset = isoformat(today)
    /\ stats.likes > 0
    /\ stats.last_action = isoformat(today)

\* C9: the general check is true iff all four categories have headroom, the
\* category check reads its own category only, and the two differ when the
\* category has headroom while another one is exhausted
C9_TwoTierCheck ==
    /\ ret.op = "check" =>
          ret.val = IF ret.arg = "None"
                    THEN \A c \in Categories : stats[c] < Maximum[c]
                    ELSE stats[ret.arg] < Maximum[ret.arg]
    /\ \A c \in Categories :
          (stats[c] < Maximum[c] /\ \E d \in Categories \ {c} : stats[d] >= Maximum[d])
            => check_daily_limits(stats, c) # check_daily_limits(stats, "None")

\* C9 witness: the like check returned true while the follow quota was used up
C9_Witness ==
    /\ ret.op = "check" /\ ret.arg = "likes" /\ ret.val
    /\ stats.follows = MaxFollows

\* C18: in dry-run mode every like_post and comment_post call returns True,
\* calls no executor, and leaves the ActionStats (counters, error count, last
\* action time) and the stats file as they were
C18_DryRunFrame ==
    [][(dry_run /\ ret'.op \in {"like", "comment"}) =>
         /\ ret'.val
         /\ ~ret'.exec
         /\ stats' = stats
         /\ store' = store]_vars

\* C18 witness: a dry-run comment_post returned True with the comment quota
\* used up, and no action time has been recorded
C18_Witness ==
    /\ dry_run
    /\ ret.op = "comment" /\ ret.val /\ ~ret.exec
    /\ stats.comments = MaxComments
    /\ stats.last_action = None

\* C26: a completed operation that changed the stats or the stats file, and
\* whose save the store accepted, leaves the file holding exactly the stats in
\* memory: a successful like or comment, a counted error, a reset
C26_PersistedAfterMutation ==
    [][((stats' # stats \/ store' # store) /\ save_failures' = save_failures)
          => store' = File("saved", stats')]_vars

\* a like is counted and written after an earlier write had failed
C26_Witness ==
    /\ ret.op = "like" /\ ret.exec /\ ret.val
    /\ stats.likes = MaxLikes
    /\ save_failures = 1
    /\ store = File("saved", stats)

\* C27: an operation whose save fails raises nothing, leaves the file as it
\* was, and ends with the stats in memory and the returned value that the
\* same operation has with a working store; a construction over an unreadable
\* file raises nothing and starts as over an absent file
C27_StoreFailureNotFatal ==
    [][/\ (ret'.op = "new" /\ store.kind = "corrupt") =>
            ~ret'.raised /\ stats' = construct(File("absent", ActionStats), today)
       /\ save_failures' # save_failures =>
         /\ ~ret'.raised
         /\ store' = store
         /\ ret'.op \in {"like", "comment"} =>
              \E outcome \in Outcomes :
                  LET r == post_action(stats, dry_run, today, ret'.op, outcome) IN
                  r.saved /\ stats' = r.stats /\ ret'.val = r.val /\ ret'.exec = r.exec
         /\ ret'.op = "reset_daily_stats" => stats' = reset_daily_stats(stats, today)
         /\ ret'.op = "check_daily_reset" => stats' = reset_daily_stats(stats, today)
         /\ ret'.op = "new" =>
              stats' = reset_daily_stats(load_stats(store), today)]_vars

\* a like was counted in memory although its save failed
C27_Witness ==
    /\ ret.op = "like" /\ ret.exec /\ ret.val /\ ~ret.raised
    /\ save_failures = 1
    /\ store.kind = "saved"
    /\ stats.likes = store.data.likes + 1

\* the four category counters and the error count of an ActionStats
Counters(st) == <<st.likes, st.comments, st.follows, st.unfollows, st.errors>>

\* C28: a bot constructed on the day of the persisted last reset starts with
\* the persisted counters and error count and leaves the file alone; a bot
\* constructed over an absent or unreadable file starts with every counter 0
\* and the current day as last reset
C28_CountersPersist ==
    [][ret'.op = "new" =>
         /\ (store.kind = "saved" /\ store.data.last_reset = isoformat(today)) =>
              Counters(stats') = Counters(store.data) /\ store' = store
         /\ store.kind \in {"absent", "corrupt"} =>
              /\ Counters(stats') = <<0, 0, 0, 0, 0>>
              /\ stats'.last_reset = isoformat(today)]_vars

\* a bot was constructed on the day of the last reset over a file that holds a
\* full like count and an error
C28_Witness ==
    /\ ret.op = "new"
    /\ store = File("saved", stats)
    /\ stats.likes = MaxLikes
    /\ stats.errors = 1
    /\ stats.last_reset = isoformat(today)

\* C29 (as claimed): _check_daily_reset resets on any difference between the
\* stored last-reset date and the current date, earlier or later: the counters
\* and the error count become 0 and the stored date the current date; on equal
\* dates nothing changes
C29_ResetOnMismatch ==
    [][ret'.op = "check_daily_reset" =>
         IF stats.last_reset # isoformat(today)
         THEN Counters(stats') = <<0, 0, 0, 0, 0>> /\ stats'.last_reset = isoformat(today)
         ELSE stats' = stats /\ store' = store]_vars

(* ================= EngagementManager (src/src/engagement.py) ========== *)
\* is_active_hours, on the hour read from the clock and the configured window
\* mutant: the end of the window is inclusive
is_active_hours_incl(current_hour, start, end) ==
    IF start <= end
    THEN start <= current_hour /\ current_hour <= end
    ELSE current_hour >= start \/ current_hour <= end

is_active_hours(current_hour, start, end) ==
    IF start <= end
    THEN start <= current_hour /\ current_hour < end
    ELSE current_hour >= start \/ current_hour < end

\* a fetched post: has_liked and the attributes of its user
Media(has_liked, is_verified, is_business, follower_count) ==
    [has_liked |-> has_liked, is_verified |-> is_verified,
     is_business |-> is_business, follower_count |-> follower_count]

\* mutant: the follower bounds are exclusive
check_post_eligibility_excl(media, skip_verified, skip_business) ==
    IF media.has_liked THEN FALSE
    ELSE IF skip_verified /\ media.is_verified THEN FALSE
    ELSE IF skip_business /\ media.is_business THEN FALSE
    ELSE IF media.follower_count <= MinFollowers THEN FALSE
    ELSE IF media.follower_count >= MaxFollowers THEN FALSE
    ELSE TRUE

check_post_eligibility(media, skip_verified, skip_business) ==
    IF media.has_liked THEN FALSE
    ELSE IF skip_verified /\ media.is_verified THEN FALSE
    ELSE IF skip_business /\ media.is_business THEN FALSE
    ELSE IF media.follower_count < MinFollowers THEN FALSE
    ELSE IF media.follower_count > MaxFollowers THEN FALSE
    ELSE TRUE

\* mutant: the comment step no longer asks for a successful like
engage_with_post_no_order(st, dry, day, like_post, comment_post, lo, gen_ok, co) ==
    LET l  == IF like_post THEN post_action(st, dry, day, "like", lo)
              ELSE [stats |-> st, val |-> FALSE, exec |-> FALSE, slept |-> FALSE, saved |-> FALSE]
        go == comment_post
        c  == IF go /\ gen_ok THEN post_action(l.stats, dry, day, "comment", co)
              ELSE [stats |-> l.stats, val |-> FALSE, exec |-> FALSE, slept |-> FALSE, saved |-> FALSE]
    IN  [stats |-> c.stats,
         liked |-> l.val, commented |-> c.val,
         error |-> (like_post /\ ~l.val) \/ (go /\ ~gen_ok) \/ (go /\ gen_ok /\ ~c.val),
         like_exec |-> l.exec, comment_exec |-> c.exec,
         slept |-> (IF l.slept THEN 1 ELSE 0) + (IF c.slept THEN 1 ELSE 0),
         saves |-> (IF l.saved THEN <<l.stats>> ELSE <<>>) \o (IF c.saved THEN <<c.stats>> ELSE <<>>)]

\* mutant: the comment step asks for a successful like only when a like was
\* requested
engage_with_post_unliked(st, dry, day, like_post, comment_post, lo, gen_ok, co) ==
    LET l  == IF like_post THEN post_action(st, dry, day, "like", lo)
              ELSE [stats |-> st, val |-> FALSE, exec |-> FALSE, slept |-> FALSE, saved |-> FALSE]
        go == comment_post /\ (l.val \/ ~like_post)
        c  == IF go /\ gen_ok THEN post_action(l.stats, dry, day, "comment", co)
              ELSE [stats |-> l.stats, val |-> FALSE, exec |-> FALSE, slept |-> FALSE, saved |-> FALSE]
    IN  [stats |-> c.stats,
         liked |-> l.val, commented |-> c.val,
         error |-> (like_post /\ ~l.val) \/ (go /\ ~gen_ok) \/ (go /\ gen_ok /\ ~c.val),
         like_exec |-> l.exec, comment_exec |-> c.exec,
         slept |-> (IF l.slept THEN 1 ELSE 0) + (IF c.slept THEN 1 ELSE 0),
         saves |-> (IF l.saved THEN <<l.stats>> ELSE <<>>) \o (IF c.saved THEN <<c.stats>> ELSE <<>>)]

\* engage_with_post: the like, then the comment only after a successful like;
\* lo and co are the executor's outcomes, gen_ok whether get_comment returned
engage_with_post(st, dry, day, like_post, comment_post, lo, gen_ok, co) ==
    LET l  == IF like_post THEN post_action(st, dry, day, "like", lo)
              ELSE [stats |-> st, val |-> FALSE, exec |-> FALSE, slept |-> FALSE, saved |-> FALSE]
        go == comment_post /\ l.val
        c  == IF go /\ gen_ok THEN post_action(l.stats, dry, day, "comment", co)
              ELSE [stats |-> l.stats, val |-> FALSE, exec |-> FALSE, slept |-> FALSE, saved |-> FALSE]
    IN  [stats |-> c.stats,
         liked |-> l.val, commented |-> c.val,
         error |-> (like_post /\ ~l.val) \/ (go /\ ~gen_ok) \/ (go /\ gen_ok /\ ~c.val),
         like_exec |-> l.exec, comment_exec |-> c.exec,
         slept |-> (IF l.slept THEN 1 ELSE 0) + (IF c.slept THEN 1 ELSE 0),
         saves |-> (IF l.saved THEN <<l.stats>> ELSE <<>>) \o (IF c.saved THEN <<c.stats>> ELSE <<>>)]

\* the length at which track_action cuts the history
HistoryCap == 1000

\* track_action: the action is appended, and a history longer than the cap is
\* cut to its last HistoryCap actions (history[-1000:])
track_action(history, action) ==
    LET appended == Append(history, action) IN
    IF Len(appended) > HistoryCap
    THEN SubSeq(appended, Len(appended) - HistoryCap + 1, Len(appended))
    ELSE appended

\* get_action_history: history[-limit:], which for limit = 0 is history[0:]
get_action_history(history, limit) ==
    IF limit = 0 \/ limit >= Len(history) THEN history
    ELSE SubSeq(history, Len(history) - limit + 1, Len(history))

\* the track_action calls of one engage_with_post: one after a like that
\* returned True, one after a comment that returned True; an action is
\* written as the number of the call that tracked it
track_post(history, count, liked, commented) ==
    LET h1 == IF liked THEN track_action(history, count + 1) ELSE history
        c1 == IF liked THEN count + 1 ELSE count
    IN  IF commented THEN track_action(h1, c1 + 1) ELSE h1

\* the stats file after the saves of one step, each of which may fail
RECURSIVE ApplySaves(_, _, _)
ApplySaves(file, saves, oks) ==
    IF saves = <<>> THEN file
    ELSE ApplySaves(save_stats(file, Head(saves), Head(oks)), Tail(saves), Tail(oks))

Failed(oks) == Cardinality({i \in DOMAIN oks : ~oks[i]})

\* the outcomes k saves in a row can have now
SaveRuns(k) ==
    {oks \in [1..k -> BOOLEAN] : save_failures + Failed(oks) <= 1}

\* mutant: the loop's guard reads the like quota only
may_continue_likes(st) == check_daily_limits(st, "likes")

\* the loop's guard at the top of each iteration: the coarse quota check
may_continue(st) == check_daily_limits(st, "None")

\* mutant: the threshold test is > instead of >=
threshold_reached_gt(st, error) == error /\ st.errors > ErrorThreshold

\* the test that ends the run after a post: made only when the post reported an error
threshold_reached(st, error) == error /\ st.errors >= ErrorThreshold

(* ============ Spec: one run of engage_with_hashtag ==================== *)
\* the posts a fetch may return
Medias ==
    {Media(h, v, b, f) : h \in BOOLEAN, v \in BOOLEAN, b \in BOOLEAN,
                         f \in {0, MinFollowers - 1, MinFollowers, MaxFollowers, MaxFollowers + 1}}

\* the hours at which a run is started
Hours == {ActiveHoursStart - 1, ActiveHoursStart, ActiveHoursEnd - 1, ActiveHoursEnd}

\* the stats files a run may find: saved on the current day by an earlier run
EngineFiles ==
    {File("absent", ActionStats)} \cup
    {File("saved", [ActionStats EXCEPT !.likes = l, !.comments = c, !.follows = f,
                                       !.unfollows = u, !.errors = e,
                                       !.last_reset = isoformat(0)]) :
        l \in 0..MaxLikes, c \in 0..MaxComments, f \in {0, MaxFollows},
        u \in {0, MaxUnfollows}, e \in 0..ErrorThreshold}

Init ==
    /\ today = 0
    /\ dry_run \in BOOLEAN
    /\ \E file \in EngineFiles :
         /\ stats = construct(file, today)
         /\ store = IF needs_reset(load_stats(file), today)
                    THEN save_stats(file, stats, TRUE) ELSE file
    /\ save_failures = 0
    /\ ret = NoCall
    /\ hour \in Hours
    /\ epc = "ready"
    /\ args \in [like_posts : BOOLEAN, comment_posts : BOOLEAN]
    /\ n = 0
    /\ idx = 0
    /\ run = RunStats
    /\ last = NoPost
    /\ reason = "none"
    /\ start_stats = stats
    /\ NoCtl
    /\ NoOther

\* engage_with_hashtag is called outside the active hours: it returns at once
Inactive ==
    /\ epc = "ready"
    /\ ~is_active_hours(hour, ActiveHoursStart, ActiveHoursEnd)
    /\ epc' = "done"
    /\ reason' = "inactive"
    /\ UNCHANGED <<stats, store, today, dry_run, ret, save_failures, hour, args, n, idx, run, last, start_stats, ctlvars, othervars>>

\* get_hashtag_posts raises inside: the error is counted, saved, and [] returned
FetchFails ==
    /\ epc = "ready"
    /\ is_active_hours(hour, ActiveHoursStart, ActiveHoursEnd)
    /\ \E oks \in SaveRuns(1) :
         /\ stats' = [stats EXCEPT !.errors = @ + 1]
         /\ store' = ApplySaves(store, <<stats'>>, oks)
         /\ save_failures' = save_failures + Failed(oks)
    /\ epc' = "done"
    /\ reason' = "no_posts"
    /\ UNCHANGED <<today, dry_run, ret, hour, args, n, idx, run, last, start_stats, ctlvars, othervars>>

\* the max_posts argument: of the call, or of the campaign that makes the call
max_posts == IF camp.pc = "none" THEN MaxPosts ELSE MaxPostsPerHashtag

\* get_hashtag_posts returns k posts; none ends the run
Fetch ==
    /\ epc = "ready"
    /\ is_active_hours(hour, ActiveHoursStart, ActiveHoursEnd)
    /\ \E k \in 0..max_posts :
         /\ n' = k
         /\ epc' = IF k = 0 THEN "done" ELSE "loop"
         /\ reason' = IF k = 0 THEN "no_posts" ELSE "none"
    /\ UNCHANGED <<stats, store, today, dry_run, ret, save_failures, hour, args, idx, run, last, start_stats, ctlvars, othervars>>

\* the coarse quota check at the top of an iteration fails: break
LimitsReached ==
    /\ epc = "loop"
    /\ idx < n
    /\ ~may_continue(stats)
    /\ epc' = "done"
    /\ reason' = "limits"
    /\ UNCHANGED <<stats, store, today, dry_run, ret, save_failures, hour, args, n, idx, run, last, start_stats, ctlvars, othervars>>

\* mutant: a post that fails the eligibility check is liked all the same
SkipPost_likes ==
    /\ epc = "loop"
    /\ idx < n
    /\ may_continue(stats)
    /\ (\E media \in Medias :
         ~check_post_eligibility(media, SkipVerified, SkipBusiness)) = TRUE
    /\ idx' = idx + 1
    /\ run' = [run EXCEPT !.posts_processed = @ + 1, !.posts_skipped = @ + 1]
    /\ stats' = after_call(stats, today, "like", "ok")
    /\ last' = [NoPost EXCEPT !.taken = TRUE, !.pre = stats, !.like_exec = TRUE]
    /\ UNCHANGED <<store, today, dry_run, ret, save_failures, hour, epc, args, n, reason, start_stats, ctlvars, othervars>>

\* mutant: a skipped post is not counted as processed
SkipPost_uncounted ==
    /\ epc = "loop"
    /\ idx < n
    /\ may_continue(stats)
    /\ (\E media \in Medias :
         ~check_post_eligibility(media, SkipVerified, SkipBusiness)) = TRUE
    /\ idx' = idx + 1
    /\ run' = [run EXCEPT !.posts_skipped = @ + 1]
    /\ last' = [NoPost EXCEPT !.taken = TRUE, !.pre = stats]
    /\ UNCHANGED <<stats, store, today, dry_run, ret, save_failures, hour, epc, args, n, reason, start_stats, ctlvars, othervars>>

\* the next post fails the eligibility check: skipped, continue
SkipPost ==
    /\ epc = "loop"
    /\ idx < n
    /\ may_continue(stats)
    /\ (\E media \in Medias :
         ~check_post_eligibility(media, SkipVerified, SkipBusiness)) = TRUE
    /\ idx' = idx + 1
    /\ run' = [run EXCEPT !.posts_processed = @ + 1, !.posts_skipped = @ + 1]
    /\ last' = [NoPost EXCEPT !.taken = TRUE, !.pre = stats]
    /\ UNCHANGED <<stats, store, today, dry_run, ret, save_failures, hour, epc, args, n, reason, start_stats, ctlvars, othervars>>

\* What client.media_like and client.media_comment answer: anything in a run of
\* engage_with_hashtag on its own; the campaign is run against an executor that
\* always succeeds.
ExecutorOutcomes == IF camp.pc = "none" THEN Outcomes ELSE {"ok"}

\* the next post is eligible: engage_with_post, the run's counts, the threshold test
EngagePost ==
    /\ epc = "loop"
    /\ idx < n
    /\ may_continue(stats)
    /\ (\E media \in Medias :
         check_post_eligibility(media, SkipVerified, SkipBusiness)) = TRUE
    /\ \E lo \in ExecutorOutcomes, co \in ExecutorOutcomes, gen_ok \in BOOLEAN :
         \E r \in {engage_with_post(stats, dry_run, today, args.like_posts,
                                    args.comment_posts, lo, gen_ok, co)} :
           /\ \E oks \in SaveRuns(Len(r.saves)) :
                /\ store' = ApplySaves(store, r.saves, oks)
                /\ save_failures' = save_failures + Failed(oks)
           /\ stats' = r.stats
           /\ run' = [run EXCEPT !.posts_processed = @ + 1,
                                 !.posts_liked = @ + (IF r.liked THEN 1 ELSE 0),
                                 !.posts_commented = @ + (IF r.commented THEN 1 ELSE 0),
                                 !.errors = @ + (IF r.error THEN 1 ELSE 0)]
           /\ last' = [taken |-> TRUE, pre |-> stats, eligible |-> TRUE,
                       like_req |-> args.like_posts, like_exec |-> r.like_exec,
                       liked |-> r.liked, comment_exec |-> r.comment_exec,
                       commented |-> r.commented, error |-> r.error,
                       fatal |-> \/ (r.like_exec /\ lo = "LoginRequired")
                                 \/ (r.comment_exec /\ co = "LoginRequired"),
                       like_out |-> IF r.like_exec THEN lo ELSE "none",
                       comment_out |-> IF r.comment_exec THEN co ELSE "none"]
           /\ epc' = IF threshold_reached(r.stats, r.error) THEN "done" ELSE "loop"
           /\ reason' = IF threshold_reached(r.stats, r.error) THEN "threshold" ELSE "none"
           /\ action_history' = track_post(action_history, tracked, r.liked, r.commented)
           /\ tracked' = tracked + (IF r.liked THEN 1 ELSE 0) + (IF r.commented THEN 1 ELSE 0)
    /\ idx' = idx + 1
    /\ UNCHANGED <<today, dry_run, ret, hour, args, n, start_stats, ctlvars,
                   probe, limits, camp, chal, obs, guivars>>

\* the next post passes the eligibility check but lacks an attribute that
\* engage_with_post reads before its try block (media.pk, media.user.username;
\* check_post_eligibility reads neither on its way to True): the AttributeError
\* leaves engage_with_post and, there being no handler in engage_with_hashtag,
\* the run; the stats dictionary is never returned
EngageRaises ==
    /\ epc = "loop"
    /\ idx < n
    /\ may_continue(stats)
    /\ (\E media \in Medias :
         check_post_eligibility(media, SkipVerified, SkipBusiness)) = TRUE
    /\ idx' = idx + 1
    /\ run' = [run EXCEPT !.posts_processed = @ + 1]
    /\ last' = [NoPost EXCEPT !.taken = TRUE, !.pre = stats, !.eligible = TRUE,
                              !.like_req = args.like_posts]
    /\ epc' = "raised"
    /\ reason' = "raised"
    /\ UNCHANGED <<stats, store, today, dry_run, ret, save_failures, hour, args, n, start_stats, ctlvars, othervars>>

\* the loop has taken every fetched post
Complete ==
    /\ epc = "loop"
    /\ idx = n
    /\ epc' = "done"
    /\ reason' = "complete"
    /\ UNCHANGED <<stats, store, today, dry_run, ret, save_failures, hour, args, n, idx, run, last, start_stats, ctlvars, othervars>>

Next ==
    \/ Inactive
    \/ FetchFails
    \/ Fetch
    \/ LimitsReached
    \/ SkipPost
    \/ EngagePost
    \/ EngageRaises
    \/ Complete

Spec == Init /\ [][Next]_vars

(* ------------------------- properties of Spec ------------------------- *)
\* C4: the comment executor is called for a post only if the like of that post
\* succeeded or no like was requested; after a failed like there is no comment
C4_CommentAfterLike ==
    /\ last.comment_exec => (last.liked \/ ~last.like_req)
    /\ (last.like_req /\ ~last.liked) => (~last.comment_exec /\ ~last.commented)

\* C4 witness: a post was liked through the executor and then commented through it
C4_Witness == last.like_exec /\ last.liked /\ last.comment_exec

\* C5: a run started with no counted error never counts more than the threshold,
\* leaves its loop with the error that reaches the threshold, and takes no post
\* once the threshold is reached
C5_ThresholdStop ==
    start_stats.errors = 0 =>
        /\ stats.errors <= ErrorThreshold
        /\ (stats.errors = ErrorThreshold => epc = "done")
        /\ (last.taken => last.pre.errors < ErrorThreshold)
        /\ (reason = "threshold" => (stats.errors = ErrorThreshold /\ last.error))

\* C5 witness: a run started at zero errors stopped at the threshold with posts
\* left over, after at least one successful like
C5_Witness ==
    /\ start_stats.errors = 0
    /\ reason = "threshold"
    /\ idx < n
    /\ run.posts_liked > 0

\* C6 (as claimed): no post is taken while the error count is at or above the
\* threshold, whatever the count was when the run began
C6_NoPostAtThreshold == last.taken => last.pre.errors < ErrorThreshold

\* C10: every post the loop takes was preceded by a coarse check with headroom
\* in all four categories, and a run stopped by that check leaves posts untaken
C10_CoarseStop ==
    /\ last.taken => \A c \in Categories : last.pre[c] < Maximum[c]
    /\ reason = "limits" =>
         /\ epc = "done"
         /\ idx < n
         /\ \E c \in Categories : stats[c] >= Maximum[c]

\* C10 witness: a run that liked was stopped by the coarse check, posts left
\* over, while the like quota still had headroom
C10_Witness ==
    /\ reason = "limits"
    /\ last.taken /\ last.liked
    /\ args.like_posts
    /\ stats.likes < MaxLikes
    /\ idx < n

\* C12: a step that takes a post rejected by the eligibility check adds exactly
\* one to posts_skipped, makes no like or comment executor call, and leaves the
\* ActionStats, the stats file and the run's like, comment and error counts as
\* they were
C12_SkippedNotExecuted ==
    [][(idx' = idx + 1 /\ ~last'.eligible) =>
         /\ run'.posts_skipped = run.posts_skipped + 1
         /\ run'.posts_processed = run.posts_processed + 1
         /\ run'.posts_liked = run.posts_liked
         /\ run'.posts_commented = run.posts_commented
         /\ run'.errors = run.errors
         /\ ~last'.like_exec /\ ~last'.comment_exec
         /\ stats' = stats
         /\ store' = store]_vars

\* C12 witness: in a real run that likes, a post was rejected after an earlier
\* post had been liked, and the like counter stayed where that like left it
C12_Witness ==
    /\ ~dry_run /\ args.like_posts
    /\ last.taken /\ ~last.eligible
    /\ run.posts_skipped = 1
    /\ run.posts_liked = 1
    /\ stats.likes = start_stats.likes + 1

\* C19 (as claimed): once the executor has failed a like or a comment with
\* LoginRequired the run is over: no later post is taken
C19_FatalAborts == [][last.fatal => idx' = idx]_vars

\* the failures the code handles as a platform block or as a generic error
Rejections == {"FeedbackRequired", "Exception"}

\* C21: a step whose like or comment fails with FeedbackRequired or a generic
\* exception adds exactly one to the error count, changes no counter of the
\* failed category and no last action time on its account, makes no further
\* executor call for the post, counts one error in the run, and leaves the loop
\* open for the next post unless the error count has reached the threshold
C21_FailureCounted ==
    [][/\ (idx' = idx + 1 /\ last'.like_out \in Rejections) =>
            /\ stats' = [stats EXCEPT !.errors = @ + 1]
            /\ ~last'.liked /\ ~last'.comment_exec
            /\ run'.errors = run.errors + 1
            /\ run'.posts_liked = run.posts_liked
            /\ epc' = IF stats'.errors >= ErrorThreshold THEN "done" ELSE "loop"
       /\ (idx' = idx + 1 /\ last'.comment_out \in Rejections) =>
            /\ stats' = [after_call(stats, today, "like", "ok") EXCEPT !.errors = @ + 1]
            /\ last'.liked /\ ~last'.commented
            /\ run'.errors = run.errors + 1
            /\ run'.posts_commented = run.posts_commented
            /\ epc' = IF stats'.errors >= ErrorThreshold THEN "done" ELSE "loop"]_vars

\* C21 witness: a like was refused with FeedbackRequired below the threshold,
\* after an earlier like of the run had succeeded; the like counter and the last
\* action time are those of that like, and the loop is open with posts left
C21_Witness ==
    /\ last.like_out = "FeedbackRequired"
    /\ stats.errors = last.pre.errors + 1
    /\ stats.errors < ErrorThreshold
    /\ run.posts_liked = 1
    /\ stats.likes = last.pre.likes
    /\ stats.last_action = last.pre.last_action
    /\ epc = "loop" /\ idx < n

\* C36: the comment executor is called for a post only after the like executor
\* was called for it and succeeded; in a run that requests the comment without
\* the like, a post taken by engage_with_post gets no executor call at all,
\* reports neither liked nor commented nor error, and leaves the ActionStats
\* as they were
C36_NoCommentWithoutLike ==
    /\ last.comment_exec => (last.like_exec /\ last.liked)
    /\ (last.taken /\ last.eligible /\ ~args.like_posts /\ args.comment_posts) =>
         /\ ~last.like_exec /\ ~last.comment_exec
         /\ ~last.liked /\ ~last.commented /\ ~last.error
         /\ stats = last.pre
         /\ run.posts_liked = 0 /\ run.posts_commented = 0 /\ run.errors = 0

\* C36 witness: a real run with like_posts false and comment_posts true has
\* taken two eligible posts with quota left for comments
C36_Witness ==
    /\ ~dry_run /\ ~args.like_posts /\ args.comment_posts
    /\ last.taken /\ last.eligible
    /\ run.posts_processed = 2 /\ run.posts_skipped = 0
    /\ stats.comments < MaxComments

\* the relations between the counts of the run's stats dictionary
RunStatsConsistent ==
    /\ run.posts_commented <= run.posts_liked
    /\ run.posts_liked + run.posts_skipped <= run.posts_processed
    /\ run.errors <= run.posts_processed - run.posts_skipped
    /\ run.posts_processed <= n
    /\ run.posts_processed = idx

\* C40: at every point of a run the counts satisfy commented <= liked,
\* liked + skipped <= processed, errors <= processed - skipped and
\* processed <= fetched; the posts are taken one at a time in fetch order,
\* each at most once
C40_RunStatsConsistent ==
    /\ []RunStatsConsistent
    /\ [][idx' \in {idx, idx + 1} /\ n' >= n /\ (idx > 0 => n' = n)]_vars

\* C40 witness: a run has taken all its posts, with a skip, two likes, a
\* comment and an error among them
C40_Witness ==
    /\ ~dry_run
    /\ epc = "done" /\ reason = "complete"
    /\ run.posts_processed = n
    /\ run.posts_skipped = 1
    /\ run.posts_liked = 2
    /\ run.posts_commented = 1
    /\ run.errors = 1

\* C33 (as claimed): whatever fails while a post is processed, the executor,
\* the comment generator or a post with missing attributes, engage_with_post
\* returns a result for it and the run goes on: no exception leaves the loop
C33_ErrorsContained == epc # "raised"

(* ============ SpecCtl: BotController and its worker threads =========== *)
\* The control context is the GUI's main thread: it makes one controller call
\* at a time, and each call is one step, except stop(), whose test and writes
\* are two.  The worker threads take their steps in between.  The writes of the stats file succeed here; SpecBot explores
\* the failing write.

\* the stats files the controller's bot may find
CtlFiles ==
    {File("absent", ActionStats)} \cup
    {File("saved", [ActionStats EXCEPT !.likes = l, !.last_reset = isoformat(0)]) :
        l \in {0, MaxLikes}}

\* like_posts and comment_posts of a run request (without the like no comment
\* is written, whatever comment_posts says)
RunOptions == {<<TRUE, FALSE>>, <<TRUE, TRUE>>, <<FALSE, FALSE>>}

\* the pacing delay (human_delay) a worker may be sleeping in
Delays == {"like_delay", "comment_delay"}

\* the cooldown (time.sleep(cooldown_minutes * 60)) a worker may be sleeping in
Cooldowns == {"like_cool", "comment_cool"}

Live(w) == workers[w].pc # "none"

Put(w, rec) == workers' = [workers EXCEPT ![w] = rec]

\* where a worker goes when its loop over the posts ends, by break or exhaustion
AfterPosts(t) == IF t.kind = "campaign" THEN "tag" ELSE "finally"

InitCtl ==
    /\ today = 0
    /\ dry_run = FALSE
    /\ stats = ActionStats
    /\ store \in CtlFiles
    /\ save_failures = 0
    /\ ret = NoCall
    /\ NoRun
    /\ NoCtl
    /\ NoOther

(* ---------------------------- control context ------------------------- *)
\* initialize(): the bot and the engagement manager are built, or a constructor
\* raises and leaves bot = None with status Error.  With the InstagramBot of
\* bot.py the constructor call raises (it is passed stop_flag, which __init__
\* does not take); the other branch is the controller over a bot that is built,
\* whose like_post and comment_post are those of bot.py and read no stop flag.
Initialize ==
    /\ ~ctl.in_stop
    /\ ~ctl.bot
    /\ \E built \in BOOLEAN :
         IF built
         THEN /\ ctl' = [ctl EXCEPT !.bot = TRUE]
              /\ stats' = construct(store, today)
              /\ Persist(needs_reset(load_stats(store), today), stats', TRUE)
         ELSE /\ ctl' = [ctl EXCEPT !.state = "error"]
              /\ UNCHANGED <<stats, store, save_failures>>
    /\ UNCHANGED <<today, dry_run, ret, runvars, othervars, workers, late, overslept>>

\* start_hashtag_engagement / start_campaign while status.state is RUNNING: refused
StartRefused ==
    /\ ~ctl.in_stop
    /\ ctl.state = "running"
    /\ UNCHANGED vars

\* start_hashtag_engagement / start_campaign otherwise: the stop flag is
\* cleared and a thread is started
Start ==
    /\ ~ctl.in_stop
    /\ ctl.state # "running"
    /\ \E w \in Threads :
         /\ ~Live(w)
         /\ \A y \in Threads : ~Live(y) => w <= y
         /\ \E kind \in {"hashtag", "campaign"}, opt \in RunOptions :
              Put(w, [NoThread EXCEPT !.pc = "spawned", !.kind = kind,
                                      !.like = opt[1], !.comment = opt[2],
                                      !.tags = IF kind = "campaign" THEN MaxTags ELSE 0])
    /\ ctl' = [ctl EXCEPT !.stop_flag = FALSE]
    /\ UNCHANGED <<botvars, runvars, othervars, late, overslept>>

\* stop() while status.state is not RUNNING: returns at once
StopIgnored ==
    /\ ~ctl.in_stop
    /\ ctl.state # "running"
    /\ UNCHANGED vars

\* stop() otherwise: its test of status.state has found RUNNING.  stop() takes
\* no lock, so the worker threads run on between the test and the writes.
StopTest ==
    /\ ~ctl.in_stop
    /\ ctl.state = "running"
    /\ ctl' = [ctl EXCEPT !.in_stop = TRUE]
    /\ UNCHANGED <<botvars, runvars, othervars, workers, late, overslept>>

\* stop() after its test: status Stopping and the stop flag set; a worker
\* sleeping in its pacing delay or in a cooldown sleeps on
Stop ==
    /\ ctl.in_stop
    /\ ctl' = [ctl EXCEPT !.state = "stopping", !.stop_flag = TRUE, !.in_stop = FALSE]
    /\ workers' = [w \in Threads |->
                     IF workers[w].pc \in Delays \cup Cooldowns
                     THEN [workers[w] EXCEPT !.cancelled = TRUE] ELSE workers[w]]
    /\ UNCHANGED <<botvars, runvars, othervars, late, overslept>>

\* reset_stats(): the control context resets the bot's counters
ResetStats ==
    /\ ~ctl.in_stop
    /\ ctl.bot
    /\ stats' = reset_daily_stats(stats, today)
    /\ Persist(TRUE, stats', TRUE)
    /\ UNCHANGED <<today, dry_run, ret, runvars, ctlvars, othervars>>

(* ------------------------------ worker thread ------------------------- *)
\* the thread's first statement: status.state = RUNNING
WBegin(w) ==
    /\ workers[w].pc = "spawned"
    /\ ctl' = [ctl EXCEPT !.state = "running"]
    /\ Put(w, [workers[w] EXCEPT !.pc = IF workers[w].kind = "campaign" THEN "lookup" ELSE "login"])
    /\ UNCHANGED <<botvars, runvars, othervars, late, overslept>>

\* _run_campaign: config_manager.get_campaign; without a config manager the call
\* raises (only a controller without a bot can lack it), an unknown name ends
\* the run with status Idle
WLookup(w) ==
    /\ workers[w].pc = "lookup"
    /\ \E r \in {"raises", "found", "unknown"} :
         /\ r = "raises" => ~ctl.bot
         /\ ctl' = [ctl EXCEPT !.state = IF r = "raises" THEN "error"
                                         ELSE IF r = "unknown" THEN "idle" ELSE @]
         /\ Put(w, [workers[w] EXCEPT !.pc = IF r = "found" THEN "login" ELSE "finally"])
    /\ UNCHANGED <<botvars, runvars, othervars, late, overslept>>

\* login if needed: a failed login ends the run with status Error
WLogin(w) ==
    /\ workers[w].pc = "login"
    /\ LET t == workers[w]
           on == IF t.kind = "campaign" THEN "tag" ELSE "fetch" IN
       IF ctl.logged_in
       THEN /\ Put(w, [t EXCEPT !.pc = on])
            /\ UNCHANGED <<ctl, stats, store, save_failures>>
       ELSE IF ~ctl.bot
       THEN /\ ctl' = [ctl EXCEPT !.state = "error"]
            /\ Put(w, [t EXCEPT !.pc = "finally", !.auth_failed = TRUE])
            /\ UNCHANGED <<stats, store, save_failures>>
       ELSE \E result \in {"ok", "challenge_failed", "failed"} :
              /\ ctl' = [ctl EXCEPT !.logged_in = (result = "ok"),
                                    !.state = IF result = "ok" THEN @ ELSE "error"]
              /\ Put(w, [t EXCEPT !.pc = IF result = "ok" THEN on ELSE "finally",
                                  !.auth_failed = (result # "ok")])
              /\ IF result = "failed"
                 THEN /\ stats.errors < MaxBotErrors
                      /\ stats' = [stats EXCEPT !.errors = @ + 1]
                      /\ Persist(TRUE, stats', TRUE)
                 ELSE UNCHANGED <<stats, store, save_failures>>
    /\ UNCHANGED <<today, dry_run, ret, runvars, othervars, late, overslept>>

\* _run_campaign: the loop over the hashtags, with its stop test
WTag(w) ==
    /\ workers[w].pc = "tag"
    /\ LET t == workers[w] IN
       IF t.tags = 0 \/ ctl.stop_flag
       THEN Put(w, [t EXCEPT !.pc = "finally"])
       ELSE Put(w, [t EXCEPT !.pc = "fetch", !.tags = @ - 1])
    /\ UNCHANGED <<botvars, runvars, othervars, ctl, late, overslept>>

\* get_hashtag_posts: k posts, or [] (after a counted error when the fetch raised)
WFetch(w) ==
    /\ workers[w].pc = "fetch"
    /\ LET t == workers[w] IN
       \E k \in 0..MaxCtlPosts, raised \in BOOLEAN :
         /\ raised => (k = 0 /\ stats.errors < MaxBotErrors)
         /\ IF raised
            THEN /\ stats' = [stats EXCEPT !.errors = @ + 1]
                 /\ Persist(TRUE, stats', TRUE)
            ELSE UNCHANGED <<stats, store, save_failures>>
         /\ IF k > 0
            THEN /\ Put(w, [t EXCEPT !.pc = "head", !.left = k])
                 /\ UNCHANGED ctl
            ELSE IF t.kind = "campaign"
            THEN /\ Put(w, [t EXCEPT !.pc = "tag"])
                 /\ UNCHANGED ctl
            ELSE /\ Put(w, [t EXCEPT !.pc = "finally"])
                 /\ ctl' = [ctl EXCEPT !.state = "idle"]
    /\ UNCHANGED <<today, dry_run, ret, runvars, othervars, late, overslept>>

\* the loop over the posts: the stop flag is read here, once per post
WHead(w) ==
    /\ workers[w].pc = "head"
    /\ LET t == workers[w] IN
       IF t.left = 0 \/ ctl.stop_flag
       THEN Put(w, [t EXCEPT !.pc = AfterPosts(t), !.left = 0, !.liked = FALSE])
       ELSE Put(w, [t EXCEPT !.pc = "like", !.left = @ - 1, !.liked = FALSE])
    /\ UNCHANGED <<botvars, runvars, othervars, ctl, late, overslept>>

\* engage_with_post up to the like's pacing delay: like_post's guard
WLike(w) ==
    /\ workers[w].pc = "like"
    /\ LET t == workers[w] IN
       IF ~t.like THEN Put(w, [t EXCEPT !.pc = "comment"])
       ELSE IF gate(stats, dry_run, "like") = "call"
       THEN Put(w, [t EXCEPT !.pc = "like_delay", !.cancelled = FALSE])
       ELSE Put(w, [t EXCEPT !.pc = "comment", !.liked = (gate(stats, dry_run, "like") = "dry")])
    /\ UNCHANGED <<botvars, runvars, othervars, ctl, late, overslept>>

\* the pacing delay ends and the executor is called: media_like / media_comment;
\* after PleaseWaitFewMinutes the call goes to sleep for the cooldown
WCall(w, kind) ==
    /\ workers[w].pc = kind \o "_delay"
    /\ LET t == workers[w] IN
       \E outcome \in Outcomes :
         /\ outcome # "ok" => stats.errors < MaxBotErrors
         /\ stats' = after_call(stats, today, kind, outcome)
         /\ Persist(TRUE, stats', TRUE)
         /\ late' = (t.cancelled /\ ctl.stop_flag)
         /\ Put(w, [t EXCEPT !.cancelled = FALSE,
                             !.liked = IF kind = "like" THEN outcome = "ok" ELSE @,
                             !.pc = IF outcome = "PleaseWaitFewMinutes" THEN kind \o "_cool"
                                    ELSE IF kind = "like" THEN "comment" ELSE "head"])
    /\ UNCHANGED <<today, dry_run, ret, runvars, othervars, ctl, overslept>>

WLikeCall(w) == WCall(w, "like")

WCommentCall(w) == WCall(w, "comment")

\* time.sleep returns when the whole cooldown has passed, and the call returns
\* False
WCooled(w) ==
    /\ workers[w].pc \in Cooldowns
    /\ LET t == workers[w] IN
         /\ overslept' = (t.cancelled /\ ctl.stop_flag)
         /\ Put(w, [t EXCEPT !.cancelled = FALSE,
                             !.pc = IF t.pc = "like_cool" THEN "comment" ELSE "head"])
    /\ UNCHANGED <<botvars, runvars, othervars, ctl, late>>

\* engage_with_post after the like: the comment only after a successful like
WComment(w) ==
    /\ workers[w].pc = "comment"
    /\ LET t == workers[w] IN
       \E gen_ok \in BOOLEAN :
         IF t.comment /\ t.liked /\ gen_ok /\ gate(stats, dry_run, "comment") = "call"
         THEN Put(w, [t EXCEPT !.pc = "comment_delay", !.cancelled = FALSE])
         ELSE Put(w, [t EXCEPT !.pc = "head"])
    /\ UNCHANGED <<botvars, runvars, othervars, ctl, late, overslept>>

\* the finally block: Idle unless Error, and the thread ends
WFinally(w) ==
    /\ workers[w].pc = "finally"
    /\ ctl' = [ctl EXCEPT !.state = IF @ = "error" THEN "error" ELSE "idle"]
    /\ Put(w, NoThread)
    /\ UNCHANGED <<botvars, runvars, othervars, late, overslept>>

Worker(w) ==
    \/ WBegin(w)
    \/ WLookup(w)
    \/ WLogin(w)
    \/ WTag(w)
    \/ WFetch(w)
    \/ WHead(w)
    \/ WLike(w)
    \/ WLikeCall(w)
    \/ WComment(w)
    \/ WCommentCall(w)
    \/ WCooled(w)
    \/ WFinally(w)

NextCtl ==
    \/ Initialize
    \/ StartRefused
    \/ Start
    \/ StopIgnored
    \/ StopTest
    \/ Stop
    \/ ResetStats
    \/ \E w \in Threads : Worker(w)

SpecCtl == InitCtl /\ [][NextCtl]_vars

(* ------------------------ properties of SpecCtl ----------------------- *)
\* C1 (as claimed): at most one worker thread is live at any time
C1_SingleFlight == Cardinality({w \in Threads : Live(w)}) <= 1

C22_TerminalStatus ==
    ((\A w \in Threads : ~Live(w)) /\ ~ctl.in_stop) => ctl.state \in {"idle", "error"}

C34_LoginFailureFatal ==
    [][\A w \in Threads :
         (/\ workers[w].pc = "finally"
          /\ workers[w].auth_failed
          /\ workers'[w].pc = "none") => ctl'.state = "error"]_vars

C39_UninitializedRunFails ==
    [][\A w \in Threads :
         (/\ ~ctl.bot
          /\ workers[w].pc = "finally"
          /\ workers'[w].pc = "none") => ctl'.state = "error"]_vars

(* ================= SpecFn: the pure checks, call by call ============== *)
\* datetime.now().hour
HoursPerDay == 24

ClockHours == 0..(HoursPerDay - 1)

\* the calls to be made: the check and its inputs
Probes ==
    {[NoProbe EXCEPT !.fn = "is_active_hours", !.hour = h, !.window = <<start, end>>] :
        h \in ClockHours, start \in ClockHours, end \in ClockHours}
    \cup
    {[NoProbe EXCEPT !.fn = "check_post_eligibility", !.media = media,
                     !.skip_verified = skip_verified, !.skip_business = skip_business] :
        media \in Medias, skip_verified \in BOOLEAN, skip_business \in BOOLEAN}

InitFn ==
    /\ today = 0
    /\ dry_run = FALSE
    /\ stats = ActionStats
    /\ store = File("absent", ActionStats)
    /\ save_failures = 0
    /\ ret = NoCall
    /\ NoRun
    /\ NoCtl
    /\ probe \in Probes
    /\ limits = Maximum
    /\ camp = NoCampaign
    /\ NoSide

\* InstagramBot.is_active_hours at the probe's hour, under its window
IsActiveHours ==
    /\ probe.fn = "is_active_hours"
    /\ ~probe.called
    /\ probe' = [probe EXCEPT !.called = TRUE,
                              !.val = is_active_hours(probe.hour, probe.window[1],
                                                      probe.window[2])]
    /\ UNCHANGED <<botvars, runvars, ctlvars, limits, camp, sidevars>>

\* EngagementManager.check_post_eligibility on the probe's post, under its flags
CheckPostEligibility ==
    /\ probe.fn = "check_post_eligibility"
    /\ ~probe.called
    /\ probe' = [probe EXCEPT !.called = TRUE,
                              !.val = check_post_eligibility(probe.media,
                                                             probe.skip_verified,
                                                             probe.skip_business)]
    /\ UNCHANGED <<botvars, runvars, ctlvars, limits, camp, sidevars>>

NextFn ==
    \/ IsActiveHours
    \/ CheckPostEligibility

SpecFn == InitFn /\ [][NextFn]_vars

(* ------------------------ properties of SpecFn ------------------------ *)
\* C11: check_post_eligibility rejects a post iff it is already liked, or its
\* user is verified and skip_verified is set, or its user is a business and
\* skip_business is set, or the follower count is strictly outside
\* [min_followers, max_followers]; a count equal to either end is accepted
C11_Eligibility ==
    (probe.fn = "check_post_eligibility" /\ probe.called) =>
        /\ probe.val = FALSE <=>
              \/ probe.media.has_liked
              \/ (probe.media.is_verified /\ probe.skip_verified)
              \/ (probe.media.is_business /\ probe.skip_business)
              \/ probe.media.follower_count < MinFollowers
              \/ probe.media.follower_count > MaxFollowers
        /\ (probe.media.follower_count \in {MinFollowers - 1, MaxFollowers + 1})
              => ~probe.val
        /\ (/\ probe.media.follower_count \in {MinFollowers, MaxFollowers}
            /\ ~probe.media.has_liked
            /\ ~probe.media.is_verified
            /\ ~probe.media.is_business) => probe.val

\* C11 witness: a post of a verified business user with exactly max_followers
\* followers was accepted, neither flag being set
C11_Witness ==
    /\ probe.fn = "check_post_eligibility"
    /\ probe.called
    /\ probe.val
    /\ probe.media.follower_count = MaxFollowers
    /\ probe.media.is_verified /\ probe.media.is_business

\* the hours of the window that opens at start and closes at end, walking the
\* clock forward from start
WindowHours(start, end) ==
    {(start + k) % HoursPerDay : k \in 0..(((end - start + HoursPerDay) % HoursPerDay) - 1)}

\* C14: for every hour and every window is_active_hours is true iff
\* start <= hour < end (start <= end) or hour >= start or hour < end (start >
\* end), that is iff the hour lies in the window walked forward from start,
\* start inclusive and end exclusive; so for (8,23) and (22,6) at 6, 7, 8, 22, 23
C14_ActiveHours ==
    (probe.fn = "is_active_hours" /\ probe.called) =>
        LET h == probe.hour
            start == probe.window[1]
            end == probe.window[2]
        IN  /\ start <= end => (probe.val <=> (start <= h /\ h < end))
            /\ start > end => (probe.val <=> (h >= start \/ h < end))
            /\ probe.val <=> h \in WindowHours(start, end)
            /\ probe.window = <<8, 23>> => (probe.val <=> h \in 8..22)
            /\ probe.window = <<22, 6>> => (probe.val <=> h \in {22, 23} \cup 0..5)

\* C14 witness: under the window (22,6), which spans midnight, hour 23 was
\* found active
C14_Witness ==
    /\ probe.fn = "is_active_hours"
    /\ probe.called
    /\ probe.window = <<22, 6>>
    /\ probe.hour = 23
    /\ probe.val

(* ================== SpecCamp: one run of run_campaign ================= *)
RoomyLikes == 6
RoomyComments == 6

\* limits that leave room for a whole campaign
Roomy == [likes |-> RoomyLikes, comments |-> RoomyComments,
          follows |-> MaxFollows, unfollows |-> MaxUnfollows]

\* campaign.hashtags: up to MaxSources hashtags, the same one twice included
CampaignLists ==
    {s \in UNION {[1..k -> Tags] : k \in 1..MaxSources} : s[1] = "a"}

\* the stats files a campaign may find: none, one with the follow quota used
\* up, one with a single comment left
CampaignFiles ==
    {File("absent", ActionStats),
     File("saved", [ActionStats EXCEPT !.follows = MaxFollows, !.last_reset = isoformat(0)]),
     File("saved", [ActionStats EXCEPT !.comments = RoomyComments - 1,
                                       !.last_reset = isoformat(0)])}

\* mutant: the totals take the last hashtag's counts instead of adding them
add_totals_last(totals, st) ==
    [likes    |-> st.posts_liked,
     comments |-> st.posts_commented,
     skipped  |-> st.posts_skipped,
     errors   |-> st.errors]

\* campaign_stats['total_*'] += stats[...]
add_totals(totals, st) ==
    [likes    |-> totals.likes + st.posts_liked,
     comments |-> totals.comments + st.posts_commented,
     skipped  |-> totals.skipped + st.posts_skipped,
     errors   |-> totals.errors + st.errors]

\* the test before the delay: the hashtag differs from the last one of the list
not_last(hashtags, hashtag) == hashtag # hashtags[Len(hashtags)]

\* The campaign is a real run (dry_run off) under the roomy limits, and the
\* writes of its stats file succeed; Spec explores the dry run and the failing
\* write.
InitCamp ==
    /\ today = 0
    /\ dry_run = FALSE
    /\ \E file \in CampaignFiles :
         /\ stats = construct(file, today)
         /\ store = IF needs_reset(load_stats(file), today)
                    THEN save_stats(file, stats, TRUE) ELSE file
    /\ save_failures = 1
    /\ ret = NoCall
    /\ hour \in {ActiveHoursStart - 1, ActiveHoursEnd - 1}
    /\ epc = "done"
    /\ args \in [like_posts : {TRUE}, comment_posts : BOOLEAN]
    /\ n = 0
    /\ idx = 0
    /\ run = RunStats
    /\ last = NoPost
    /\ reason = "none"
    /\ start_stats = stats
    /\ NoCtl
    /\ probe = NoProbe
    /\ limits = Roomy
    /\ NoSide
    /\ \E hashtags \in CampaignLists :
         camp = [NoCampaign EXCEPT !.pc = "boundary", !.hashtags = hashtags,
                                   !.pos = 1, !.pre = stats]

\* the loop over the hashtags finds the coarse quota check failing: break
CampaignLimits ==
    /\ camp.pc = "boundary"
    /\ ~check_daily_limits(stats, "None")
    /\ camp' = [camp EXCEPT !.pc = "done", !.reason = "limits"]
    /\ UNCHANGED <<botvars, runvars, ctlvars, probe, limits, sidevars>>

\* the loop over the hashtags finds the hour outside the active window: break
CampaignInactive ==
    /\ camp.pc = "boundary"
    /\ check_daily_limits(stats, "None")
    /\ ~is_active_hours(hour, ActiveHoursStart, ActiveHoursEnd)
    /\ camp' = [camp EXCEPT !.pc = "done", !.reason = "inactive"]
    /\ UNCHANGED <<botvars, runvars, ctlvars, probe, limits, sidevars>>

\* both checks pass: engage_with_hashtag is called for the hashtag
CampaignEngage ==
    /\ camp.pc = "boundary"
    /\ check_daily_limits(stats, "None")
    /\ is_active_hours(hour, ActiveHoursStart, ActiveHoursEnd)
    /\ camp' = [camp EXCEPT !.pc = "engaging"]
    /\ epc' = "ready"
    /\ n' = 0
    /\ idx' = 0
    /\ run' = RunStats
    /\ last' = NoPost
    /\ reason' = "none"
    /\ start_stats' = stats
    /\ UNCHANGED <<botvars, hour, args, ctlvars, probe, limits, sidevars>>

\* engage_with_hashtag has returned: its stats are entered under the hashtag and
\* added to the totals, the delay is taken unless the hashtag equals the last
CampaignCollect ==
    /\ camp.pc = "engaging"
    /\ epc = "done"
    /\ LET hashtag == camp.hashtags[camp.pos]
           more == camp.pos < Len(camp.hashtags) IN
       camp' = [camp EXCEPT
                  !.entries[hashtag] = [set |-> TRUE, stats |-> run],
                  !.totals = add_totals(camp.totals, run),
                  !.processed = Append(@, hashtag),
                  !.delay_after = IF not_last(camp.hashtags, hashtag)
                                  THEN @ \cup {camp.pos} ELSE @,
                  !.pos = @ + 1,
                  !.pc = IF more THEN "boundary" ELSE "done",
                  !.reason = IF more THEN "none" ELSE "complete"]
    /\ n' = 0
    /\ idx' = 0
    /\ run' = RunStats
    /\ last' = NoPost
    /\ reason' = "none"
    /\ start_stats' = stats
    /\ UNCHANGED <<botvars, hour, epc, args, ctlvars, probe, limits, sidevars>>

\* the clock reaches the end of the active window while the campaign runs
WindowCloses ==
    /\ camp.pc \in {"boundary", "engaging"}
    /\ hour = ActiveHoursEnd - 1
    /\ hour' = ActiveHoursEnd
    /\ UNCHANGED <<botvars, epc, args, n, idx, run, last, reason, start_stats,
                   ctlvars, othervars>>

NextCamp ==
    \/ CampaignLimits
    \/ CampaignInactive
    \/ CampaignEngage
    \/ CampaignCollect
    \/ WindowCloses
    \/ Inactive
    \/ FetchFails
    \/ Fetch
    \/ LimitsReached
    \/ SkipPost
    \/ EngagePost
    \/ Complete

SpecCamp == InitCamp /\ [][NextCamp]_vars
(* ----------------------- properties of SpecCamp ----------------------- *)
\* the sum of the per-hashtag entries of campaign_stats['hashtags']
RECURSIVE SumEntries(_)
SumEntries(S) ==
    IF S = {} THEN NoTotals
    ELSE LET t == CHOOSE x \in S : TRUE
         IN  add_totals(SumEntries(S \ {t}), camp.entries[t].stats)

\* C15: a finished campaign over two sources, like and comment enabled, that
\* began with room for 6 likes and 6 comments and with the other quotas open,
\* and in which each source gave 3 posts, none skipped and none failing, has 3
\* likes and 3 comments per source, totals of 6 and 6, and like and comment
\* counters of ActionStats grown by exactly 6
C15_EndToEnd ==
    (/\ camp.pc = "done"
     /\ camp.hashtags = <<"a", "b">>
     /\ args.like_posts /\ args.comment_posts
     /\ ~dry_run
     /\ limits.likes - camp.pre.likes >= 6
     /\ limits.comments - camp.pre.comments >= 6
     /\ camp.pre.follows < limits.follows
     /\ camp.pre.unfollows < limits.unfollows
     /\ \A t \in {"a", "b"} :
          /\ camp.entries[t].set
          /\ camp.entries[t].stats.posts_processed = 3
          /\ camp.entries[t].stats.posts_skipped = 0
          /\ camp.entries[t].stats.errors = 0)
    => /\ \A t \in {"a", "b"} :
            /\ camp.entries[t].stats.posts_liked = 3
            /\ camp.entries[t].stats.posts_commented = 3
       /\ camp.totals.likes = 6
       /\ camp.totals.comments = 6
       /\ stats.likes = camp.pre.likes + 6
       /\ stats.comments = camp.pre.comments + 6

\* C15 witness: such a campaign has finished, with 6 likes and 6 comments made
C15_Witness ==
    /\ camp.pc = "done" /\ camp.reason = "complete"
    /\ camp.hashtags = <<"a", "b">>
    /\ \A t \in {"a", "b"} :
         /\ camp.entries[t].stats.posts_processed = 3
         /\ camp.entries[t].stats.posts_skipped = 0
         /\ camp.entries[t].stats.errors = 0
    /\ args.comment_posts
    /\ stats.likes = 6 /\ stats.comments = 6

\* C16 (as claimed): each total of campaign_stats equals the sum of the
\* corresponding counts of the per-hashtag entries
C16_TotalsMatch == camp.totals = SumEntries(Tags)

\* C17 (as claimed): the hashtags are processed in list order, a delay follows
\* every processed hashtag that is followed by another one, and none follows
\* the last hashtag of the list
C17_DelayBetweenSources ==
    /\ camp.processed = SubSeq(camp.hashtags, 1, Len(camp.processed))
    /\ \A i \in 1..(Len(camp.processed) - 1) : i \in camp.delay_after
    /\ Len(camp.hashtags) \notin camp.delay_after

(* ============ SpecHist: the action history, call by call ============== *)
\* how many track_action calls are followed
MaxTracked == 1002

InitHist ==
    /\ today = 0
    /\ dry_run = FALSE
    /\ stats = ActionStats
    /\ store = File("absent", ActionStats)
    /\ save_failures = 0
    /\ ret = NoCall
    /\ NoRun
    /\ NoCtl
    /\ NoOther

\* the limits get_action_history is called with
MaxLimit == 2

\* track_action is called once more
TrackAction ==
    /\ tracked < MaxTracked
    /\ action_history' = track_action(action_history, tracked + 1)
    /\ tracked' = tracked + 1
    /\ ret' = NoCall
    /\ UNCHANGED <<stats, store, today, dry_run, save_failures, runvars, ctlvars,
                   probe, limits, camp, chal, obs, guivars>>

\* get_action_history(limit), through the controller or on the manager
GetActionHistory ==
    /\ \E limit \in 0..MaxLimit :
         ret' = [NoCall EXCEPT !.op = "get_action_history", !.limit = limit,
                                !.list = get_action_history(action_history, limit)]
    /\ UNCHANGED <<stats, store, today, dry_run, save_failures, runvars, ctlvars,
                   othervars>>

NextHist ==
    \/ TrackAction
    \/ GetActionHistory

SpecHist == InitHist /\ [][NextHist]_vars

(* ----------------------- properties of SpecHist ----------------------- *)
\* C30 (as claimed): the history never holds more than the cap, the call that
\* overflows it discards the oldest half, and what is kept are the most recent
\* actions in the order they were tracked
C30_HistoryBounded ==
    [][tracked' = tracked + 1 =>
         /\ Len(action_history') <= HistoryCap
         /\ Len(action_history) = HistoryCap =>
                Len(action_history') <= HistoryCap \div 2 + 1
         /\ \A i \in 1..Len(action_history') :
                action_history'[i] = tracked' - Len(action_history') + i]_vars

\* the smaller of two numbers
Min(a, b) == IF a <= b THEN a ELSE b

\* C38 (as claimed): get_action_history(limit) returns the most recent
\* min(limit, length of the history) actions in the order they were tracked,
\* and so none for limit = 0
C38_RecentHistory ==
    [][ret'.op = "get_action_history" =>
         LET k == Min(ret'.limit, Len(action_history)) IN
         /\ Len(ret'.list) = k
         /\ \A i \in 1..k :
                ret'.list[i] = action_history[Len(action_history) - k + i]]_vars

(* ========= SpecChal: one verification code request, step by step ====== *)
\* The worker thread calls _handle_challenge_code; the dialog runs in the GUI's
\* main thread; the two share result['code'] and the event.
MaxCodeLen == 2

\* what the observer may have typed into the entry: blanks and a digit
Chars == {" ", "7"}

Typings == UNION {[1..k -> Chars] : k \in 0..MaxCodeLen}

\* str.strip(): the blanks at both ends are removed
RECURSIVE lstrip(_)
lstrip(s) == IF s # Empty /\ Head(s) = " " THEN lstrip(Tail(s)) ELSE s

RECURSIVE rstrip(_)
rstrip(s) == IF s # Empty /\ s[Len(s)] = " " THEN rstrip(SubSeq(s, 1, Len(s) - 1)) ELSE s

strip(s) == rstrip(lstrip(s))

InitChal ==
    /\ today = 0
    /\ dry_run = FALSE
    /\ stats = ActionStats
    /\ store = File("absent", ActionStats)
    /\ save_failures = 0
    /\ ret = NoCall
    /\ NoRun
    /\ NoCtl
    /\ probe = NoProbe
    /\ limits = Maximum
    /\ camp = NoCampaign
    /\ action_history = <<>>
    /\ tracked = 0
    /\ obs = NoObserver
    /\ NoGuiSide
    /\ \E responder \in BOOLEAN :
         chal = [NoChallenge EXCEPT !.pc = "idle", !.responder = responder]

\* _handle_challenge_code without a registered callback: "" is returned
RequestUnanswered ==
    /\ chal.pc = "idle"
    /\ ~chal.responder
    /\ chal' = [chal EXCEPT !.pc = "returned", !.code = Empty]
    /\ UNCHANGED <<botvars, runvars, ctlvars, probe, limits, camp, action_history, tracked, obs, guivars>>

\* _handle_challenge_code calls the GUI's _on_challenge_code: result and event
\* are made, show_dialog is queued for the main thread, and the worker waits
Request ==
    /\ chal.pc = "idle"
    /\ chal.responder
    /\ chal' = [chal EXCEPT !.pc = "waiting", !.dialog = "queued",
                             !.result = Empty, !.event = FALSE]
    /\ UNCHANGED <<botvars, runvars, ctlvars, probe, limits, camp, action_history, tracked, obs, guivars>>

\* the main thread runs show_dialog: the dialog opens and wait_window begins
ShowDialog ==
    /\ chal.dialog = "queued"
    /\ chal' = [chal EXCEPT !.dialog = "open"]
    /\ UNCHANGED <<botvars, runvars, ctlvars, probe, limits, camp, action_history, tracked, obs, guivars>>

\* the observer types into the entry
Type ==
    /\ chal.dialog = "open"
    /\ \E text \in Typings \ {chal.typed} : chal' = [chal EXCEPT !.typed = text]
    /\ UNCHANGED <<botvars, runvars, ctlvars, probe, limits, camp, action_history, tracked, obs, guivars>>

\* the observer closes the window: the dialog is destroyed and the event set
Dismiss ==
    /\ chal.dialog = "open"
    /\ chal' = [chal EXCEPT !.dialog = "closed", !.event = TRUE]
    /\ UNCHANGED <<botvars, runvars, ctlvars, probe, limits, camp, action_history, tracked, obs, guivars>>

\* submit (Return or the Verify button): the stripped entry is stored and the
\* dialog destroyed; in_time records that the worker was still waiting
Submit ==
    /\ chal.dialog = "open"
    /\ chal' = [chal EXCEPT !.dialog = "submitted", !.result = strip(chal.typed),
                             !.in_time = (chal.pc = "waiting")]
    /\ UNCHANGED <<botvars, runvars, ctlvars, probe, limits, camp, action_history, tracked, obs, guivars>>

\* wait_window has returned after the submit: show_dialog sets the event
AfterWindow ==
    /\ chal.dialog = "submitted"
    /\ chal' = [chal EXCEPT !.dialog = "closed", !.event = TRUE]
    /\ UNCHANGED <<botvars, runvars, ctlvars, probe, limits, camp, action_history, tracked, obs, guivars>>

\* event.wait(timeout=120) returns: the event is set, or the timeout has passed
WaitEnds ==
    /\ chal.pc = "waiting"
    /\ chal' = [chal EXCEPT !.pc = "resumed", !.timed_out = ~chal.event]
    /\ UNCHANGED <<botvars, runvars, ctlvars, probe, limits, camp, action_history, tracked, obs, guivars>>

\* return result['code'], and _handle_challenge_code returns it, or "" for ""
ReturnCode ==
    /\ chal.pc = "resumed"
    /\ chal' = [chal EXCEPT !.pc = "returned",
                             !.code = IF chal.result # Empty THEN chal.result ELSE Empty]
    /\ UNCHANGED <<botvars, runvars, ctlvars, probe, limits, camp, action_history, tracked, obs, guivars>>

\* stop() is called while the request is under way: the stop flag is set
Cancel ==
    /\ chal.pc \in {"waiting", "resumed"}
    /\ ~chal.stop_flag
    /\ chal' = [chal EXCEPT !.stop_flag = TRUE]
    /\ UNCHANGED <<botvars, runvars, ctlvars, probe, limits, camp, action_history, tracked, obs, guivars>>

NextChal ==
    \/ RequestUnanswered
    \/ Request
    \/ ShowDialog
    \/ Type
    \/ Dismiss
    \/ Submit
    \/ AfterWindow
    \/ WaitEnds
    \/ ReturnCode
    \/ Cancel

SpecChal == InitChal /\ [][NextChal]_vars

(* ----------------------- properties of SpecChal ----------------------- *)
\* C23 (as claimed): the handler returns the code the observer submitted while
\* the worker was waiting, and the empty string when the wait timed out
\* without one, when the window was closed, or when no callback is registered
C23_RoundTrip ==
    chal.pc = "returned" =>
        chal.code = IF chal.responder /\ chal.in_time THEN strip(chal.typed) ELSE Empty

(* ===== SpecObs: a like-only worker run, statement by statement, ======= *)
(* ===== and the observer that reads the stats                    ======= *)
\* The controller's bot is built and logged in and the worker of
\* start_hashtag_engagement(like_posts=True, comment_posts=False) has fetched
\* its posts.  like_post is taken statement by statement: the counter is
\* incremented in memory, then _save_stats writes the file, and the write may
\* fail.  The GUI's main thread polls get_stats every two seconds.
ObsThread == 1

\* get_stats: the fields of ActionStats as they are in memory
get_stats(st) == st

\* what the stats file holds, as a set: nothing unless a save has been written
Held(file) == IF file.kind = "saved" THEN {file.data} ELSE {}

ObsStep(pc) == workers' = [workers EXCEPT ![ObsThread].pc = pc]

InitObs ==
    /\ today = 0
    /\ dry_run \in BOOLEAN
    /\ \E file \in CtlFiles :
         /\ stats = construct(file, today)
         /\ store = IF needs_reset(load_stats(file), today)
                    THEN save_stats(file, stats, TRUE) ELSE file
    /\ save_failures = 0
    /\ ret = NoCall
    /\ NoRun
    /\ ctl = [bot |-> TRUE, logged_in |-> TRUE, state |-> "running",
              stop_flag |-> FALSE, in_stop |-> FALSE]
    /\ \E k \in 1..MaxPosts :
         workers = [w \in Threads |->
                      IF w = ObsThread
                      THEN [NoThread EXCEPT !.pc = "head", !.like = TRUE, !.left = k]
                      ELSE NoThread]
    /\ late = FALSE
    /\ overslept = FALSE
    /\ probe = NoProbe
    /\ limits = Maximum
    /\ camp = NoCampaign
    /\ chal = NoChallenge
    /\ action_history = <<>>
    /\ tracked = 0
    /\ obs = [NoObserver EXCEPT !.persisted = Held(store)]
    /\ NoGuiSide

\* the loop over the posts: the next post, or the end of the loop
ObsHead ==
    /\ workers[ObsThread].pc = "head"
    /\ workers' = [workers EXCEPT
                     ![ObsThread].pc = IF workers[ObsThread].left = 0 THEN "finally" ELSE "like",
                     ![ObsThread].left = IF @ = 0 THEN 0 ELSE @ - 1]
    /\ UNCHANGED <<botvars, runvars, ctl, late, overslept, othervars>>

\* like_post's guard: a dry run and a reached limit return without a call
ObsGate ==
    /\ workers[ObsThread].pc = "like"
    /\ ObsStep(IF gate(stats, dry_run, "like") = "call" THEN "like_delay" ELSE "notify")
    /\ UNCHANGED <<botvars, runvars, ctl, late, overslept, othervars>>

\* human_delay, client.media_like, and the statements up to _save_stats: the
\* counter or the error count is incremented in memory
ObsExecute ==
    /\ workers[ObsThread].pc = "like_delay"
    /\ \E outcome \in Outcomes :
         /\ outcome # "ok" => stats.errors < MaxBotErrors
         /\ stats' = after_call(stats, today, "like", outcome)
    /\ ObsStep("like_save")
    /\ UNCHANGED <<store, today, dry_run, ret, save_failures, runvars, ctl, late,
                   overslept, othervars>>

\* _save_stats: the file is written, or the write fails and is logged
ObsSave ==
    /\ workers[ObsThread].pc = "like_save"
    /\ \E ok \in SaveOutcomes :
         /\ Persist(TRUE, stats, ok)
         /\ obs' = [obs EXCEPT !.persisted = @ \cup (IF ok THEN {stats} ELSE {})]
    /\ ObsStep("notify")
    /\ UNCHANGED <<stats, today, dry_run, ret, runvars, ctl, late, overslept,
                   probe, limits, camp, chal, action_history, tracked, guivars>>

\* _notify_stats_update after engage_with_post: the worker reads get_stats and
\* hands the snapshot to the observer's callback
ObsNotify ==
    /\ workers[ObsThread].pc = "notify"
    /\ obs' = [obs EXCEPT !.by = "notify", !.snapshot = get_stats(stats)]
    /\ ObsStep("head")
    /\ UNCHANGED <<botvars, runvars, ctl, late, overslept,
                   probe, limits, camp, chal, action_history, tracked, guivars>>

\* _poll_updates in the main thread, while the run is active: _update_stats
\* reads controller.get_stats()
ObsPoll ==
    /\ workers[ObsThread].pc # "none"
    /\ obs' = [obs EXCEPT !.by = "poll", !.snapshot = get_stats(stats)]
    /\ UNCHANGED <<botvars, runvars, ctlvars, probe, limits, camp, chal,
                   action_history, tracked, guivars>>

\* the finally block: status Idle, and the thread ends
ObsFinally ==
    /\ workers[ObsThread].pc = "finally"
    /\ ctl' = [ctl EXCEPT !.state = "idle"]
    /\ workers' = [workers EXCEPT ![ObsThread] = NoThread]
    /\ UNCHANGED <<botvars, runvars, late, overslept, othervars>>

NextObs ==
    \/ ObsHead
    \/ ObsGate
    \/ ObsExecute
    \/ ObsSave
    \/ ObsNotify
    \/ ObsPoll
    \/ ObsFinally

SpecObs == InitObs /\ [][NextObs]_vars

MaxTemplates == 4
MaxCalls == 6

\* the size above which the usage tracker is cut, and the size it is cut to
TrackerCap == 100
TrackerKeep == 50

\* mutant: the comments already used are not filtered out
available_comments_all(templates, used, avoid_recent) == templates

\* the comments random.choice is given: those of the category not yet used,
\* or all of them when none is left or nothing is to be avoided
available_comments(templates, used, avoid_recent) ==
    IF avoid_recent /\ used # {} /\ templates \ used # {}
    THEN templates \ used
    ELSE templates

\* the tracker before the choice: cleared when every comment of the category
\* has been used
tracker_before(templates, used, avoid_recent) ==
    IF avoid_recent /\ used # {} /\ templates \ used = {} THEN {} ELSE used

\* the trackers the call may leave: the comment is added, and a tracker
\* larger than the cap is cut to TrackerKeep of its members (the last ones of
\* list(set), whose order is arbitrary)
tracker_after(used, comment) ==
    LET added == used \cup {comment} IN
    IF Cardinality(added) > TrackerCap
    THEN {kept \in SUBSET added : Cardinality(kept) = TrackerKeep}
    ELSE {added}

InitGen ==
    /\ today = 0
    /\ dry_run = FALSE
    /\ stats = ActionStats
    /\ store = File("absent", ActionStats)
    /\ save_failures = 0
    /\ ret = NoCall
    /\ NoRun
    /\ NoCtl
    /\ probe = NoProbe
    /\ limits = Maximum
    /\ camp = NoCampaign
    /\ chal = NoChallenge
    /\ action_history = <<>>
    /\ tracked = 0
    /\ obs = NoObserver
    /\ gui = NoGui
    /\ \E count \in 1..MaxTemplates, avoid \in BOOLEAN :
         gen = [NoGenerator EXCEPT !.templates = 1..count, !.avoid_recent = avoid]

\* get_comment(category, avoid_recent)
GetComment ==
    /\ Len(gen.out) < MaxCalls
    /\ \E comment \in available_comments(gen.templates, gen.used_comments, gen.avoid_recent) :
         \E used \in tracker_after(tracker_before(gen.templates, gen.used_comments,
                                                  gen.avoid_recent), comment) :
           gen' = [gen EXCEPT !.used_comments = used, !.out = Append(@, comment)]
    /\ UNCHANGED <<botvars, runvars, ctlvars, probe, limits, camp, chal,
                   action_history, tracked, obs, gui>>

NextGen == GetComment

SpecGen == InitGen /\ [][NextGen]_vars

(* ----------------------- properties of SpecGen ------------------------ *)
\* C35: with avoid_recent and a tracker that was empty, the first N comments
\* returned for a category of N distinct templates are N distinct comments,
\* and whenever a comment is returned a second time every template of the
\* category has been returned before
C35_CommentVariety ==
    gen.avoid_recent =>
        /\ \A i, j \in 1..Len(gen.out) :
               (i < j /\ j <= Cardinality(gen.templates)) => gen.out[i] # gen.out[j]
        /\ \A i, j \in 1..Len(gen.out) :
               (i < j /\ gen.out[i] = gen.out[j]) =>
                   {gen.out[k] : k \in 1..(j - 1)} = gen.templates

\* C35 witness: every template of the largest category has been returned once
\* and the next call has returned one of them again
C35_Witness ==
    /\ gen.avoid_recent
    /\ gen.templates = 1..MaxTemplates
    /\ Len(gen.out) = MaxTemplates + 1
    /\ {gen.out[k] : k \in 1..MaxTemplates} = gen.templates
    /\ gen.out[MaxTemplates + 1] = gen.out[MaxTemplates]

(* ===== SpecPub: one hashtag run of the controller and what the  ======= *)
(* ===== GUI's main thread is handed of it                        ======= *)
\* start_hashtag_engagement has returned and its thread is about to run
\* _run_hashtag_engagement.  Every _notify_status_change hands the GUI the
\* controller's one BotStatus object, every _notify_action a dictionary built
\* for the event; BotGUI queues a callback for each with root.after(0, ...),
\* and the main thread runs the queued callbacks in the order they were queued.
MaxPubPosts == 3

\* a queued callback; state is the status at the time of the notification,
\* which the callback itself does not hold
StatusEntry(state) == [kind |-> "status", state |-> state, target |-> 0]

ActionEntry(kind, target) == [kind |-> kind, state |-> "none", target |-> target]

\* _on_status_change / _on_action: root.after(0, ...) queues behind what is queued
Queued(entries) == gui' = [gui EXCEPT !.queue = @ \o entries]

\* mutant: the like event is published whatever the like returned
action_events_all(target, result) ==
    <<ActionEntry("like", target)>>
        \o (IF result.commented THEN <<ActionEntry("comment", target)>> ELSE <<>>)

\* the _notify_action calls after engage_with_post: the like event if the
\* result says liked, then the comment event if it says commented
action_events(target, result) ==
    (IF result.liked THEN <<ActionEntry("like", target)>> ELSE <<>>)
        \o (IF result.commented THEN <<ActionEntry("comment", target)>> ELSE <<>>)

InitPub ==
    /\ today = 0
    /\ dry_run = FALSE
    /\ \E file \in CtlFiles :
         /\ stats = construct(file, today)
         /\ store = IF needs_reset(load_stats(file), today)
                    THEN save_stats(file, stats, TRUE) ELSE file
    /\ save_failures = 0
    /\ ret = NoCall
    /\ hour = ActiveHoursStart
    /\ epc = "ready"
    /\ args \in [like_posts : BOOLEAN, comment_posts : BOOLEAN]
    /\ n = 0
    /\ idx = 0
    /\ run = RunStats
    /\ last = NoPost
    /\ reason = "none"
    /\ start_stats = stats
    /\ \E logged_in \in BOOLEAN :
         ctl = [bot |-> TRUE, logged_in |-> logged_in, state |-> "idle",
                stop_flag |-> FALSE, in_stop |-> FALSE]
    /\ workers = [w \in Threads |->
                    IF w = ObsThread
                    THEN [NoThread EXCEPT !.pc = "spawned", !.like = args.like_posts,
                                          !.comment = args.comment_posts]
                    ELSE NoThread]
    /\ late = FALSE
    /\ overslept = FALSE
    /\ probe = NoProbe
    /\ limits = Maximum
    /\ camp = NoCampaign
    /\ chal = NoChallenge
    /\ action_history = <<>>
    /\ tracked = 0
    /\ obs = NoObserver
    /\ gen = NoGenerator
    /\ gui = NoGui

\* what the steps of SpecPub leave alone besides the bot, the controller's
\* status, the thread and the GUI
PubFrame ==
    UNCHANGED <<today, dry_run, ret, save_failures, hour, epc, args, run, last,
                reason, start_stats, late, overslept, probe, limits, camp, chal,
                action_history, tracked, obs, gen>>

\* the thread's first statements: status RUNNING, and the notification
PubBegin ==
    /\ workers[ObsThread].pc = "spawned"
    /\ ctl' = [ctl EXCEPT !.state = "running"]
    /\ Queued(<<StatusEntry("running")>>)
    /\ ObsStep("login")
    /\ PubFrame
    /\ UNCHANGED <<stats, store, n, idx>>

\* login if needed: a failed login sets status ERROR, notifies and returns
PubLogin ==
    /\ workers[ObsThread].pc = "login"
    /\ \E ok \in (IF ctl.logged_in THEN {TRUE} ELSE BOOLEAN) :
         IF ok
         THEN /\ ctl' = [ctl EXCEPT !.logged_in = TRUE]
              /\ ObsStep("fetch")
              /\ UNCHANGED gui
         ELSE /\ ctl' = [ctl EXCEPT !.state = "error"]
              /\ Queued(<<StatusEntry("error")>>)
              /\ ObsStep("finally")
    /\ PubFrame
    /\ UNCHANGED <<stats, store, n, idx>>

\* get_hashtag_posts: no posts end the run with status IDLE and a notification;
\* otherwise status.total is set and notified
PubFetch ==
    /\ workers[ObsThread].pc = "fetch"
    /\ \E k \in 0..MaxPubPosts :
         /\ n' = k
         /\ IF k = 0
            THEN /\ ctl' = [ctl EXCEPT !.state = "idle"]
                 /\ Queued(<<StatusEntry("idle")>>)
                 /\ ObsStep("finally")
            ELSE /\ Queued(<<StatusEntry(ctl.state)>>)
                 /\ ObsStep("head")
                 /\ UNCHANGED ctl
    /\ PubFrame
    /\ UNCHANGED <<stats, store, idx>>

\* the loop over the posts: the stop test, then the progress notification
PubHead ==
    /\ workers[ObsThread].pc = "head"
    /\ IF idx = n \/ ctl.stop_flag
       THEN /\ ObsStep("finally")
            /\ UNCHANGED gui
       ELSE /\ Queued(<<StatusEntry(ctl.state)>>)
            /\ ObsStep("engage")
    /\ PubFrame
    /\ UNCHANGED <<stats, store, n, idx, ctl>>

\* engage_with_post on the next post, then the action notifications
PubEngage ==
    /\ workers[ObsThread].pc = "engage"
    /\ \E lo \in Outcomes, co \in Outcomes, gen_ok \in BOOLEAN :
         \E r \in {engage_with_post(stats, dry_run, today, args.like_posts,
                                    args.comment_posts, lo, gen_ok, co)} :
           /\ stats' = r.stats
           /\ store' = IF r.saves = <<>> THEN store ELSE File("saved", r.stats)
           /\ Queued(action_events(idx + 1, r))
    /\ idx' = idx + 1
    /\ ObsStep("head")
    /\ PubFrame
    /\ UNCHANGED <<n, ctl>>

\* the finally block: IDLE unless ERROR, the notification, and the thread ends
PubFinally ==
    /\ workers[ObsThread].pc = "finally"
    /\ \E state \in {IF ctl.state = "error" THEN "error" ELSE "idle"} :
         /\ ctl' = [ctl EXCEPT !.state = state]
         /\ Queued(<<StatusEntry(state)>>)
    /\ workers' = [workers EXCEPT ![ObsThread] = NoThread]
    /\ PubFrame
    /\ UNCHANGED <<stats, store, n, idx>>

\* stop() in the main thread while the status is RUNNING
PubStop ==
    /\ ctl.state = "running"
    /\ ctl' = [ctl EXCEPT !.state = "stopping", !.stop_flag = TRUE]
    /\ Queued(<<StatusEntry("stopping")>>)
    /\ PubFrame
    /\ UNCHANGED <<stats, store, n, idx, workers>>

\* the main thread runs the callback at the head of the queue:
\* _update_status_ui reads status.state as it is now; _add_action_to_log
\* writes the event it was given
PubHandle ==
    /\ gui.queue # <<>>
    /\ LET entry == Head(gui.queue) IN
       gui' = IF entry.kind = "status"
              THEN [gui EXCEPT !.queue = Tail(@), !.badge = ctl.state,
                               !.published = entry.state, !.handled = @ + 1]
              ELSE [gui EXCEPT !.queue = Tail(@), !.log = Append(@, entry)]
    /\ PubFrame
    /\ UNCHANGED <<stats, store, n, idx, ctl, workers>>

NextPub ==
    \/ PubBegin
    \/ PubLogin
    \/ PubFetch
    \/ PubHead
    \/ PubEngage
    \/ PubFinally
    \/ PubStop
    \/ PubHandle

SpecPub == InitPub /\ [][NextPub]_vars

(* ----------------------- properties of SpecPub ------------------------ *)
\* the events notified so far, in the order they were notified: those the
\* main thread has written, then those still queued
Events == gui.log \o SelectSeq(gui.queue, LAMBDA e : e.kind # "status")

Count(events, kind) == Len(SelectSeq(events, LAMBDA e : e.kind = kind))

\* C31: the events the main thread has written are the first of the events
\* notified; for each post the like event comes before the comment event,
\* every event of a post comes before every event of a later post, and there
\* is exactly one like event per like counted by the bot and one comment
\* event per comment counted, so none for a failed or skipped action
C31_EventOrder ==
    /\ \A i, j \in 1..Len(Events) :
           i < j => \/ Events[i].target < Events[j].target
                    \/ /\ Events[i].target = Events[j].target
                       /\ Events[i].kind = "like" /\ Events[j].kind = "comment"
    /\ \A i \in 1..Len(Events) : Events[i].target \in 1..idx
    /\ Count(Events, "like") = stats.likes - start_stats.likes
    /\ Count(Events, "comment") = stats.comments - start_stats.comments

\* C31 witness: the main thread has written the like and the comment of the
\* first post and the like of the third; the second post's like failed
C31_Witness ==
    /\ idx = 3
    /\ gui.queue = <<>>
    /\ gui.log = <<ActionEntry("like", 1), ActionEntry("comment", 1),
                   ActionEntry("like", 3)>>
    /\ stats.errors >= 1

\* C32 (as claimed): a status notification handled in the main thread shows
\* the state that was current when it was published
C32_StatusInOrder == gui.badge = gui.published

====
